---- MODULE Spec2Model ----
(***************************************************************************)
(* Slipsnisse: the downstream capability manager (ClientManager), the tool *)
(* wrapper, the execution engine's loop and the protocol server's handler. *)
(* Strings whose characters matter (server ids, tool names, namespaced     *)
(* names) are sequences of one-character strings, so that the split done   *)
(* by callTool is computed, character by character, as the code does.      *)
(***************************************************************************)
EXTENDS Integers, Sequences, FiniteSets, TLC

\* ------------------------------------------------------------------------
\* Bounds of the model
\* ------------------------------------------------------------------------

\* longest server id / tool name drawn for the naming functions
MaxLen == 2

\* ------------------------------------------------------------------------
\* Strings
\* ------------------------------------------------------------------------

Chars == {"a", "_"}

RECURSIVE StrsOfLen(_)
StrsOfLen(n) ==
    IF n = 0 THEN {<< >>}
    ELSE {Append(s, c) : s \in StrsOfLen(n - 1), c \in Chars}

\* the non-empty strings drawn as server ids and tool names
Strs == UNION {StrsOfLen(n) : n \in 1..MaxLen}

\* String.prototype.indexOf(sep): the first 0-based position at which sep
\* occurs in str, -1 when it does not occur.
IndexOf(str, sep) ==
    LET hits == {i \in 0..(Len(str) - Len(sep)) :
                    SubSeq(str, i + 1, i + Len(sep)) = sep}
    IN IF hits = {} THEN -1
       ELSE CHOOSE i \in hits : \A j \in hits : i <= j

\* String.prototype.slice(from, to) for 0 <= from <= to <= length
Slice(str, from, to) == SubSeq(str, from + 1, to)

Contains(str, sep) == IndexOf(str, sep) # -1

EndsWith(str, c) == Len(str) > 0 /\ str[Len(str)] = c

\* ------------------------------------------------------------------------
\* Namespacing (client-manager.ts)
\* ------------------------------------------------------------------------

NAMESPACE_SEPARATOR == <<"_", "_">>

\* mutant: the namespaced name is built without the separator
NamespacedNameNoSep(serverId, toolName) == serverId \o toolName

\* getAvailableTools: `${serverId}${NAMESPACE_SEPARATOR}${toolName}`
NamespacedName(serverId, toolName) ==
    serverId \o NAMESPACE_SEPARATOR \o toolName

Malformed == [malformed |-> TRUE]

\* mutant: the tool name is sliced from one character after the separator's start
SplitNamespacedOffByOne(namespacedName) ==
    LET sepIndex == IndexOf(namespacedName, NAMESPACE_SEPARATOR)
    IN IF sepIndex = -1 THEN Malformed
       ELSE [malformed |-> FALSE,
             serverId  |-> Slice(namespacedName, 0, sepIndex),
             toolName  |-> Slice(namespacedName, sepIndex + 1,
                                 Len(namespacedName))]

\* callTool: the split of the composite name at the first separator
SplitNamespaced(namespacedName) ==
    LET sepIndex == IndexOf(namespacedName, NAMESPACE_SEPARATOR)
    IN IF sepIndex = -1 THEN Malformed
       ELSE [malformed |-> FALSE,
             serverId  |-> Slice(namespacedName, 0, sepIndex),
             toolName  |-> Slice(namespacedName,
                                 sepIndex + Len(NAMESPACE_SEPARATOR),
                                 Len(namespacedName))]

\* ------------------------------------------------------------------------
\* Configuration and environment of the modelled deployment
\* ------------------------------------------------------------------------

sA  == <<"a">>
sAU == <<"a", "_">>
sAA == <<"a", "a">>
tA  == <<"a">>
tUA == <<"_", "a">>

\* keys of config.mcps
ServerIds == {sA, sAU}

\* McpConfig.transport / McpConfig.url: a local process, a remote endpoint,
\* a remote endpoint whose url is missing
Transports == {"stdio", "sse", "sseNoUrl"}

\* the tool catalogue each downstream answers listTools with
Offered(s) == IF s = sA THEN <<tA, tUA>> ELSE <<tA>>

\* what a downstream may answer a proxied call with: result.content and
\* result.isError (an optional boolean)
DsResults == [content : {"c1", "c2"}, isError : {"true", "false", "undefined"}]

\* process exit codes: number | null
ExitCodes == {[isNull |-> TRUE, n |-> 0], [isNull |-> FALSE, n |-> 0],
              [isNull |-> FALSE, n |-> 1]}

\* ------------------------------------------------------------------------
\* State
\* ------------------------------------------------------------------------

VARIABLES
    cfg,          \* config.mcps: server id -> transport descriptor
    connections,  \* ClientManager.connections
    processes,    \* ClientManager.processes (keys)
    proc,         \* the child process spawned by createTransport, per server
    connPc,       \* position of each connectServer call
    mgrPc,        \* position of ClientManager.init
    pending,      \* the callTool awaiting conn.client.callTool
    lastCall,     \* how the latest callTool ended
    contexts,     \* ExecutionEngine.contexts
    engPc,        \* position of ExecutionEngine.init
    registered,   \* composite tools registered by createServer
    run,          \* the task execution in flight (handler, execute, loop)
    result,       \* what the handler returned to the orchestrator
    nm,           \* inputs and results of the naming functions
    avail,        \* a whitelist and what getAvailableTools returned for it
    counter,      \* SessionManager.counter
    sessions,     \* SessionManager.sessions: session id -> SessionState
    waiting,      \* the waitForReply promises not yet resolved, by the
                  \* number of the createSession call that returned them
    created,      \* how many times createSession has been called
    lastOp,       \* the latest SessionManager call and what it returned
    shut,         \* position and effects of ClientManager.shutdown, and
                  \* whether the shutdown handler of the CLI has exited
    tproc,        \* the child process of each StdioClientTransport
    conc,         \* task executions in flight at the same time, by invocation
    registry      \* the provider cache of the registry and its getModel calls

mgrVars == <<cfg, connections, processes, proc, connPc, mgrPc>>
callVars == <<pending, lastCall>>
engVars == <<contexts, engPc, registered, run, result>>
pureVars == <<nm, avail>>
sesVars == <<counter, sessions, waiting, created, lastOp>>
shutVars == <<shut>>
extVars == <<tproc, conc, registry>>
vars == <<cfg, connections, processes, proc, connPc, mgrPc, pending, lastCall,
          contexts, engPc, registered, run, result, nm, avail,
          counter, sessions, waiting, created, lastOp, shut, tproc, conc,
          registry>>

\* no entry under a key of the connections map
NoConn == [status |-> "absent", tools |-> << >>, client |-> "null"]

NoProc == [state |-> "none", code |-> [isNull |-> TRUE, n |-> 0],
           sawEntry |-> FALSE, killed |-> FALSE]

\* shutdown has not been called: todo are the entries of the connection map
\* still to visit, awaiting the server whose close is awaited, closed the
\* servers a close was attempted on, closeFailed those whose close
\* rejected, connectedAtVisit the servers found connected when the loop
\* reached them, procsAtKill the keys of the process map when the kill loop
\* ran, killSent the processes sent a kill
NoShut == [pc |-> "idle", todo |-> << >>, awaiting |-> << >>, closed |-> {},
           closeFailed |-> {}, killSent |-> {}, procsAtKill |-> {},
           connectedAtVisit |-> {}]

\* invocations of the protocol server's handlers that may be in flight at
\* the same time
Invocations == {1, 2}

\* no pause marker: sessionId and question are what the handler returned,
\* n is the number of the createSession call that made the session
NoMarker == [sessionId |-> -1, question |-> "none", n |-> -1]

\* no loop run in an invocation; from is the number of the createSession
\* call whose session a resumed run continues, answered the number of the
\* one whose marker the orchestrator was replying to
NoExec == [pc |-> "none", task |-> "none", args |-> "none", origin |-> "none",
           start |-> << >>, from |-> -1, answered |-> -1]

\* runs: the loop run of each invocation; marks: the pause marker each
\* invocation last returned; last: how the latest resume call ended
NoConc == [runs |-> [k \in Invocations |-> NoExec],
           marks |-> [k \in Invocations |-> NoMarker],
           last |-> [op |-> "none", sessionId |-> -1, accepted |-> FALSE,
                     from |-> -1]]

\* getModel calls that can be awaiting their import at once
RegCalls == {1, 2}

NoOptions == [given |-> FALSE, endpoint |-> "undefined",
              apiKey |-> "undefined", providerOptions |-> "undefined"]

NoRegCall == [pc |-> "none", providerName |-> "none", modelId |-> "none",
              options |-> NoOptions]

NoHandle == [providerName |-> "none", modelId |-> "none",
             made |-> "none", baseURL |-> "unset", apiKey |-> "unset",
             rest |-> "unset"]

NoRegResult == [kind |-> "none", providerName |-> "none",
                modelId |-> "none", options |-> NoOptions,
                handle |-> NoHandle, cached |-> FALSE]

\* the provider cache is empty and getModel has not been called
NoReg == [cache |-> << >>, calls |-> [k \in RegCalls |-> NoRegCall],
          last |-> NoRegResult]

NoCall == [outcome |-> "none", via |-> "none", name |-> << >>,
           serverId |-> << >>, toolName |-> << >>,
           statusAtStart |-> "absent", exitedAtStart |-> FALSE,
           proxied |-> FALSE, errClass |-> "none", code |-> "none",
           errServerId |-> << >>, errStatus |-> "none",
           ds |-> [content |-> "none", isError |-> "undefined"],
           content |-> "none", isError |-> FALSE]

NoNames == [phase |-> "idle"]

\* ------------------------------------------------------------------------
\* ClientManager.init / connectServer / createTransport
\* ------------------------------------------------------------------------

\* createTransport: throws for sse without url, spawns a child for stdio
CreateTransport(config) ==
    IF config = "sseNoUrl" THEN "throw"
    ELSE IF config = "sse" THEN "sse"
    ELSE "spawned"

\* the far end of the server's transport is there to answer: for stdio the
\* child of the StdioClientTransport, built from command, args and env alone
Serving(s) == cfg[s] = "stdio" => tproc[s] = "running"

\* connectServer, success path: connections.set(serverId, {tools, status: "connected"})
ConnectedEntry(tools) ==
    [status |-> "connected", tools |-> tools, client |-> "client"]

\* mutant: the catch block stores no entry for the failed server
CatchConnectErrorDrops(conns, s) == conns

\* connectServer, catch: connections.set(serverId, {tools: [], status: "failed"})
CatchConnectError(conns, s) ==
    [conns EXCEPT ![s] = [status |-> "failed", tools |-> << >>,
                          client |-> "null"]]

Settled(pcs, s) == pcs[s] \in {"ok", "failed"}

\* init returns as soon as every connectServer promise has settled
InitPcAfter(pcs) ==
    IF \A s \in ServerIds : Settled(pcs, s) THEN "ready" ELSE "initialising"

\* init: the synchronous part of every connectServer, up to its first await
MgrInit ==
    /\ mgrPc = "new"
    /\ LET thrown == {s \in ServerIds : CreateTransport(cfg[s]) = "throw"}
           spawned == {s \in ServerIds : CreateTransport(cfg[s]) = "spawned"}
           RECURSIVE Catch(_, _)
           Catch(conns, todo) ==
               IF todo = {} THEN conns
               ELSE LET s == CHOOSE x \in todo : TRUE
                    IN Catch(CatchConnectError(conns, s), todo \ {s})
           pcs == [s \in ServerIds |->
                      IF s \in thrown THEN "failed" ELSE "connecting"]
       IN /\ connections' = Catch(connections, thrown)
          /\ processes' = processes \cup spawned
          /\ proc' = [s \in ServerIds |->
                         IF s \in spawned
                         THEN [proc[s] EXCEPT !.state = "running"]
                         ELSE proc[s]]
          /\ tproc' = [s \in ServerIds |->
                          IF s \in spawned THEN "running" ELSE tproc[s]]
          /\ connPc' = pcs
          /\ mgrPc' = InitPcAfter(pcs)
    /\ UNCHANGED <<cfg, callVars, engVars, pureVars, sesVars, shutVars,
                   conc, registry>>

\* await client.connect(transport) resolves
ConnectResolved(s) ==
    /\ connPc[s] = "connecting"
    /\ Serving(s)
    /\ connPc' = [connPc EXCEPT ![s] = "listing"]
    /\ UNCHANGED <<cfg, connections, processes, proc, mgrPc, callVars, engVars, pureVars, sesVars, shutVars,
                   extVars>>

\* await client.connect(transport) rejects
ConnectRejected(s) ==
    /\ connPc[s] = "connecting"
    /\ connections' = CatchConnectError(connections, s)
    /\ connPc' = [connPc EXCEPT ![s] = "failed"]
    /\ mgrPc' = InitPcAfter(connPc')
    /\ UNCHANGED <<cfg, processes, proc, callVars, engVars, pureVars, sesVars, shutVars,
                   extVars>>

\* await client.listTools() resolves with the downstream's catalogue
ListToolsResolved(s) ==
    /\ connPc[s] = "listing"
    /\ Serving(s)
    /\ connections' = [connections EXCEPT ![s] = ConnectedEntry(Offered(s))]
    /\ connPc' = [connPc EXCEPT ![s] = "ok"]
    /\ mgrPc' = InitPcAfter(connPc')
    /\ UNCHANGED <<cfg, processes, proc, callVars, engVars, pureVars, sesVars, shutVars,
                   extVars>>

\* await client.listTools() rejects
ListToolsRejected(s) ==
    /\ connPc[s] = "listing"
    /\ connections' = CatchConnectError(connections, s)
    /\ connPc' = [connPc EXCEPT ![s] = "failed"]
    /\ mgrPc' = InitPcAfter(connPc')
    /\ UNCHANGED <<cfg, processes, proc, callVars, engVars, pureVars, sesVars, shutVars,
                   extVars>>

\* ------------------------------------------------------------------------
\* Health tracking: proc.on("exit")
\* ------------------------------------------------------------------------

ExitStatus(code) ==
    IF code.n # 0 /\ ~code.isNull THEN "failed" ELSE "disconnected"

\* the exit observer: conn = connections.get(serverId); if (conn) conn.status = ...
OnExit(conns, s, code) ==
    IF conns[s].status = "absent" THEN conns
    ELSE [conns EXCEPT ![s].status = ExitStatus(code)]

\* mutant: the exit observer also empties the context cache of the engine
ProcExitDroppingContexts(s, code) ==
    /\ proc[s].state = "running"
    /\ proc' = [proc EXCEPT ![s] = [state |-> "exited", code |-> code,
                    sawEntry |-> connections[s].status # "absent",
                    killed |-> proc[s].killed]]
    /\ connections' = OnExit(connections, s, code)
    /\ contexts' = [n \in DOMAIN contexts |->
                        [built |-> FALSE, tools |-> {}, allowCallback |-> FALSE]]
    /\ UNCHANGED <<cfg, processes, connPc, mgrPc, callVars, engPc, registered,
                   run, result, pureVars, sesVars, shutVars,
                   extVars>>

\* mutant: the exit observer also fails the call in flight to that server
ProcExitFailingCalls(s, code) ==
    /\ proc[s].state = "running"
    /\ proc' = [proc EXCEPT ![s] = [state |-> "exited", code |-> code,
                    sawEntry |-> connections[s].status # "absent",
                    killed |-> proc[s].killed]]
    /\ connections' = OnExit(connections, s, code)
    /\ IF pending.outcome = "inflight" /\ pending.serverId = s
       THEN /\ pending' = NoCall
            /\ lastCall' = [pending EXCEPT !.outcome = "threw",
                                !.errClass = "ToolExecutionError",
                                !.code = "MCP_UNAVAILABLE",
                                !.errServerId = s]
       ELSE UNCHANGED callVars
    /\ UNCHANGED <<cfg, processes, connPc, mgrPc, engVars, pureVars, sesVars, shutVars,
                   extVars>>

\* the spawned child exits with some code and the observer runs
ProcExit(s, code) ==
    /\ proc[s].state = "running"
    /\ proc' = [proc EXCEPT ![s] = [state |-> "exited", code |-> code,
                    sawEntry |-> connections[s].status # "absent",
                    killed |-> proc[s].killed]]
    /\ connections' = OnExit(connections, s, code)
    /\ UNCHANGED <<cfg, processes, connPc, mgrPc, callVars, engVars, pureVars, sesVars, shutVars,
                   extVars>>

\* the child of the server's StdioClientTransport exits; the manager has no
\* observer on it, and the client's onclose is not set
TransportExit(s) ==
    /\ tproc[s] = "running"
    /\ tproc' = [tproc EXCEPT ![s] = "exited"]
    /\ UNCHANGED <<mgrVars, callVars, engVars, pureVars, sesVars, shutVars,
                   conc, registry>>

\* ------------------------------------------------------------------------
\* ClientManager.callTool
\* ------------------------------------------------------------------------

\* connections.get(serverId)
GetConn(conns, serverId) ==
    IF serverId \in DOMAIN conns THEN conns[serverId] ELSE NoConn

\* mutant: the status of the entry is not checked before proxying
CallToolCheckNoStatus(namespacedName, conns) ==
    LET split == SplitNamespaced(namespacedName)
    IN IF split.malformed
       THEN [verdict |-> "malformed", serverId |-> << >>, toolName |-> << >>,
             status |-> "absent"]
       ELSE [verdict |-> IF GetConn(conns, split.serverId).status = "absent"
                         THEN "unknown" ELSE "proxy",
             serverId |-> split.serverId, toolName |-> split.toolName,
             status |-> GetConn(conns, split.serverId).status]

\* callTool up to the proxied call: split, look the server up, check its status
CallToolCheck(namespacedName, conns) ==
    LET split == SplitNamespaced(namespacedName)
    IN IF split.malformed
       THEN [verdict |-> "malformed", serverId |-> << >>, toolName |-> << >>,
             status |-> "absent"]
       ELSE LET conn == GetConn(conns, split.serverId)
            IN [verdict |-> IF conn.status = "absent" THEN "unknown"
                            ELSE IF conn.status # "connected" THEN "unavailable"
                            ELSE "proxy",
                serverId |-> split.serverId, toolName |-> split.toolName,
                status |-> conn.status]

\* the part of a composite name before its first separator
NamedServer(namespacedName) ==
    IF Contains(namespacedName, NAMESPACE_SEPARATOR)
    THEN Slice(namespacedName, 0, IndexOf(namespacedName, NAMESPACE_SEPARATOR))
    ELSE namespacedName

\* the process of the named server had exited when the call started
ExitedAtStart(serverId) ==
    serverId \in ServerIds /\ proc[serverId].state = "exited"

\* callTool from its entry to its first await or throw
CallToolBegin(via, namespacedName) ==
    LET chk == CallToolCheck(namespacedName, connections)
        base == [NoCall EXCEPT !.via = via, !.name = namespacedName,
                               !.serverId = chk.serverId,
                               !.toolName = chk.toolName,
                               !.statusAtStart =
                                   GetConn(connections,
                                           NamedServer(namespacedName)).status,
                               !.exitedAtStart =
                                   ExitedAtStart(NamedServer(namespacedName))]
    IN IF chk.verdict = "malformed"
       THEN \* throw new Error("Invalid namespaced tool name")
            [base EXCEPT !.outcome = "threw", !.errClass = "Error"]
       ELSE IF chk.verdict = "unknown"
       THEN \* ToolExecutionError("MCP_UNAVAILABLE", ..., {serverId})
            [base EXCEPT !.outcome = "threw",
                         !.errClass = "ToolExecutionError",
                         !.code = "MCP_UNAVAILABLE",
                         !.errServerId = chk.serverId]
       ELSE IF chk.verdict = "unavailable"
       THEN \* ToolExecutionError("MCP_UNAVAILABLE", ..., {serverId, status})
            [base EXCEPT !.outcome = "threw",
                         !.errClass = "ToolExecutionError",
                         !.code = "MCP_UNAVAILABLE",
                         !.errServerId = chk.serverId,
                         !.errStatus = chk.status]
       ELSE \* await conn.client.callTool({name: toolName, arguments: args})
            [base EXCEPT !.outcome = "inflight", !.proxied = TRUE]

\* mutant: the downstream's error flag is dropped from the result
ToolCallResultNoFlag(ds) == [content |-> ds.content, isError |-> FALSE]

\* return {content: result.content, isError: result.isError === true}
ToolCallResult(ds) == [content |-> ds.content, isError |-> ds.isError = "true"]

\* the proxied call was answered by the downstream
CallToolReturned(call, ds) ==
    [call EXCEPT !.outcome = "returned", !.ds = ds,
                 !.content = ToolCallResult(ds).content,
                 !.isError = ToolCallResult(ds).isError]

\* catch: ToolExecutionError("LLM_ERROR", ..., {serverId, toolName})
CallToolFailed(call) ==
    [call EXCEPT !.outcome = "threw", !.errClass = "ToolExecutionError",
                 !.code = "LLM_ERROR", !.errServerId = call.serverId]

\* composite names a caller of the manager's API may pass
ApiNames == {NamespacedName(sA, tA), NamespacedName(sAU, tA), sAA,
             NamespacedName(sAA, tA)}

\* mutant: a call refused because its server is not connected launches the
\* server again and marks it connected
ApiCallToolRestarting(name) ==
    /\ mgrPc = "ready"
    /\ pending = NoCall
    /\ LET call == CallToolBegin("api", name)
           again == call.code = "MCP_UNAVAILABLE" /\ call.errStatus # "none"
       IN /\ IF call.outcome = "inflight"
             THEN pending' = call /\ UNCHANGED lastCall
             ELSE lastCall' = call /\ UNCHANGED pending
          /\ connections' = IF again
                            THEN [connections EXCEPT
                                     ![call.serverId].status = "connected"]
                            ELSE connections
          /\ processes' = IF again THEN processes \cup {call.serverId}
                          ELSE processes
          /\ proc' = IF again
                     THEN [proc EXCEPT ![call.serverId].state = "running"]
                     ELSE proc
    /\ UNCHANGED <<cfg, connPc, mgrPc, engVars, pureVars, sesVars, shutVars, extVars>>

\* callTool called directly on the manager, after init has returned
ApiCallTool(name) ==
    /\ mgrPc = "ready"
    /\ pending = NoCall
    /\ LET call == CallToolBegin("api", name)
       IN IF call.outcome = "inflight"
          THEN pending' = call /\ UNCHANGED lastCall
          ELSE lastCall' = call /\ UNCHANGED pending
    /\ UNCHANGED <<mgrVars, engVars, pureVars, sesVars, shutVars, extVars>>

\* the downstream answers the proxied call
ApiCallReturned(ds) ==
    /\ pending # NoCall
    /\ pending.via = "api"
    /\ Serving(pending.serverId)
    /\ lastCall' = CallToolReturned(pending, ds)
    /\ pending' = NoCall
    /\ UNCHANGED <<mgrVars, engVars, pureVars, sesVars, shutVars, extVars>>

\* the proxied call fails at the transport
ApiCallFailed ==
    /\ pending # NoCall
    /\ pending.via = "api"
    /\ lastCall' = CallToolFailed(pending)
    /\ pending' = NoCall
    /\ UNCHANGED <<mgrVars, engVars, pureVars, sesVars, shutVars, extVars>>

\* ------------------------------------------------------------------------
\* ClientManager.getAvailableTools
\* ------------------------------------------------------------------------

\* longest whitelist (number of server entries) drawn for getAvailableTools
MaxWhitelist == 2

\* conn.tools.find((t) => t.name === toolName)
HasTool(tools, toolName) == \E i \in 1..Len(tools) : tools[i] = toolName

NamespacedTool(serverId, toolName) ==
    [namespacedName |-> NamespacedName(serverId, toolName),
     originalName |-> toolName, serverId |-> serverId]

\* the inner loop: one namespaced tool per listed name the server discovered
RECURSIVE ToolsOfServer(_, _, _)
ToolsOfServer(serverId, tools, toolNames) ==
    IF toolNames = << >> THEN << >>
    ELSE (IF HasTool(tools, Head(toolNames))
          THEN <<NamespacedTool(serverId, Head(toolNames))>>
          ELSE << >>)
         \o ToolsOfServer(serverId, tools, Tail(toolNames))

\* mutant: servers that are not connected are not skipped
RECURSIVE GetAvailableToolsAnyStatus(_, _)
GetAvailableToolsAnyStatus(internalTools, conns) ==
    IF internalTools = << >> THEN << >>
    ELSE LET e == Head(internalTools)
             conn == GetConn(conns, e.serverId)
         IN (IF conn.status = "absent" THEN << >>
             ELSE ToolsOfServer(e.serverId, conn.tools, e.toolNames))
            \o GetAvailableToolsAnyStatus(Tail(internalTools), conns)

\* getAvailableTools: the outer loop over Object.entries(internalTools)
RECURSIVE GetAvailableTools(_, _)
GetAvailableTools(internalTools, conns) ==
    IF internalTools = << >> THEN << >>
    ELSE LET e == Head(internalTools)
             conn == GetConn(conns, e.serverId)
         IN (IF conn.status # "connected" THEN << >>
             ELSE ToolsOfServer(e.serverId, conn.tools, e.toolNames))
            \o GetAvailableTools(Tail(internalTools), conns)

\* ------------------------------------------------------------------------
\* The naming functions and getAvailableTools applied to drawn inputs
\* ------------------------------------------------------------------------

\* getAvailableTools names both pairs
BuildNames ==
    /\ nm.phase = "drawn"
    /\ nm' = [phase |-> "built", s1 |-> nm.s1, t1 |-> nm.t1,
              s2 |-> nm.s2, t2 |-> nm.t2,
              n1 |-> NamespacedName(nm.s1, nm.t1),
              n2 |-> NamespacedName(nm.s2, nm.t2)]
    /\ UNCHANGED <<mgrVars, callVars, engVars, avail, sesVars, shutVars,
                   extVars>>

\* callTool splits the first name
SplitName ==
    /\ nm.phase = "built"
    /\ nm' = [phase |-> "split", s1 |-> nm.s1, t1 |-> nm.t1,
              s2 |-> nm.s2, t2 |-> nm.t2, n1 |-> nm.n1, n2 |-> nm.n2,
              split |-> SplitNamespaced(nm.n1)]
    /\ UNCHANGED <<mgrVars, callVars, engVars, avail, sesVars, shutVars,
                   extVars>>

\* tool lists a downstream may have advertised
ToolLists == {<< >>, <<tA>>, <<tA, tUA>>}

\* lists of permitted tool names a whitelist may give for a server
NameLists == {<< >>, <<tA>>, <<tA, tA>>, <<tUA, tA>>}

\* connection tables: every server absent or in any status with any tool list
ConnTables ==
    [ServerIds -> {NoConn} \cup
        [status : {"connected", "failed", "disconnected"}, tools : ToolLists,
         client : {"client"}]]

WhitelistEntries == [serverId : ServerIds \cup {sAA}, toolNames : NameLists]

\* whitelists: Object.entries of a record, so no server id occurs twice
Whitelists ==
    UNION {{w \in [1..n -> WhitelistEntries] :
               \A i, j \in 1..n : i # j => w[i].serverId # w[j].serverId}
           : n \in 0..MaxWhitelist}

\* getAvailableTools(internalTools) on the drawn table
CallGetAvailableTools(internalTools) ==
    /\ avail.phase = "drawn"
    /\ avail' = [phase |-> "done", conns |-> avail.conns,
                 internalTools |-> internalTools,
                 tools |-> GetAvailableTools(internalTools, avail.conns)]
    /\ UNCHANGED <<mgrVars, callVars, engVars, nm, sesVars, shutVars,
                   extVars>>

\* ------------------------------------------------------------------------
\* Composite tools (config.tools) and ExecutionEngine.init
\* ------------------------------------------------------------------------

\* config.tools: two composite tools, each whitelisting one tool of one server
Tools ==
    << [name |-> "t1",
        internal_tools |-> << [serverId |-> sAU, toolNames |-> <<tA, tUA>>] >>,
        allow_callback |-> FALSE],
       [name |-> "t2",
        internal_tools |-> << [serverId |-> sA, toolNames |-> <<tA>>] >>,
        allow_callback |-> TRUE] >>

ToolNames == {Tools[i].name : i \in 1..Len(Tools)}

ToolConfig(name) == Tools[CHOOSE i \in 1..Len(Tools) : Tools[i].name = name]

NoCtx == [built |-> FALSE, tools |-> {}, allowCallback |-> FALSE]

\* mutant: a server passes as soon as the table has an entry for it
HasRequiredServersAnyEntry(internalTools, conns) ==
    \A i \in 1..Len(internalTools) :
        GetConn(conns, internalTools[i].serverId).status # "absent"

\* hasRequiredServers: every server of the whitelist is connected
HasRequiredServers(internalTools, conns) ==
    \A i \in 1..Len(internalTools) :
        GetConn(conns, internalTools[i].serverId).status = "connected"

\* hasRequiredServers(internalTools) on the drawn table; again tells that
\* the call before it had the same argument
CallHasRequiredServers(internalTools) ==
    /\ avail.phase \in {"drawn", "asked"}
    /\ avail' = [phase |-> "asked", conns |-> avail.conns,
                 internalTools |-> internalTools,
                 has |-> HasRequiredServers(internalTools, avail.conns),
                 again |-> /\ avail.phase = "asked"
                           /\ avail.internalTools = internalTools]
    /\ UNCHANGED <<mgrVars, callVars, engVars, nm, sesVars, shutVars,
                   extVars>>

\* wrapTools: a record keyed by namespacedName, each wrapper calling
\* clientManager.callTool(mcpTool.namespacedName, args)
WrapTools(tools) == {tools[i].namespacedName : i \in 1..Len(tools)}

\* buildContext after getModel has resolved
BuildContext(toolConfig, conns) ==
    [built |-> TRUE,
     tools |-> WrapTools(GetAvailableTools(toolConfig.internal_tools, conns)),
     allowCallback |-> toolConfig.allow_callback]

\* the loop of init from tool i on: tools whose servers are not all
\* connected are skipped; the first other one awaits getModel
RECURSIVE EngineLoop(_, _)
EngineLoop(i, conns) ==
    IF i > Len(Tools) THEN [pc |-> "ready", idx |-> 0]
    ELSE IF ~HasRequiredServers(Tools[i].internal_tools, conns)
    THEN EngineLoop(i + 1, conns)
    ELSE [pc |-> "building", idx |-> i]

\* engine.init is called once ClientManager.init has returned
EngineInit ==
    /\ mgrPc = "ready"
    /\ engPc.pc = "new"
    /\ engPc' = EngineLoop(1, connections)
    /\ UNCHANGED <<mgrVars, callVars, contexts, registered, run, result,
                   pureVars, sesVars, shutVars, extVars>>

\* await getModel(...) resolves: the context is built and cached
GetModelResolved ==
    /\ engPc.pc = "building"
    /\ contexts' = [contexts EXCEPT ![Tools[engPc.idx].name] =
                        BuildContext(Tools[engPc.idx], connections)]
    /\ engPc' = EngineLoop(engPc.idx + 1, connections)
    /\ UNCHANGED <<mgrVars, callVars, registered, run, result, pureVars, sesVars, shutVars,
                   extVars>>

\* await getModel(...) rejects: logged, the tool gets no context
GetModelRejected ==
    /\ engPc.pc = "building"
    /\ engPc' = EngineLoop(engPc.idx + 1, connections)
    /\ UNCHANGED <<mgrVars, callVars, contexts, registered, run, result,
                   pureVars, sesVars, shutVars, extVars>>

\* ------------------------------------------------------------------------
\* createServer and the composite tool handler (server.ts)
\* ------------------------------------------------------------------------

\* createServer: a tool is registered when its servers are connected and
\* its context exists; the reply tool when some tool allows callbacks
\* mutant: the reply tool is registered only when every tool allows callbacks
HasCallbackToolsEvery(tools) ==
    \A i \in 1..Len(tools) : tools[i].allow_callback

\* config.tools.some((tool) => tool.allow_callback)
HasCallbackTools(tools) ==
    \E i \in 1..Len(tools) : tools[i].allow_callback

\* the name of the reply tool on the protocol server
REPLY_TOOL == "slipsnisse_reply"

\* the schema of slipsnisse_reply: session_id is z.number().int().min(0).max(999)
REPLY_ID_MIN == 0
REPLY_ID_MAX == 999
ReplyIdAccepted(id) == id \in Int /\ id >= REPLY_ID_MIN /\ id <= REPLY_ID_MAX

CreateServer ==
    /\ engPc.pc = "ready"
    /\ ~registered.created
    /\ registered' =
          [created |-> TRUE,
           tools |-> {n \in ToolNames :
                        /\ HasRequiredServers(ToolConfig(n).internal_tools,
                                              connections)
                        /\ contexts[n].built},
           reply |-> HasCallbackTools(Tools),
           \* replyTool.disable()
           replyEnabled |-> FALSE]
    /\ UNCHANGED <<mgrVars, callVars, contexts, engPc, run, result, pureVars, sesVars, shutVars,
                   extVars>>

\* what the protocol server answers to tools/list: the registered tools
\* that are enabled
ToolsList(reg) ==
    reg.tools \cup (IF reg.reply /\ reg.replyEnabled THEN {REPLY_TOOL} ELSE {})

\* ------------------------------------------------------------------------
\* Messages of a loop run (ModelMessage)
\* ------------------------------------------------------------------------

\* caller arguments of a composite tool, questions the sub-agent may ask,
\* payloads the orchestrator may reply with
Args == {"x1", "x2"}
Questions == {"q1", "q2"}
Payloads == {"p1", "p2"}

\* JSON.stringify(payload)
JsonStringify(payload) == <<"json", payload>>

\* execute: {role: "user", content: prompt}, the prompt listing the arguments
PromptMessage(args) ==
    [role |-> "user", kind |-> "prompt", args |-> args, question |-> "none",
     payload |-> << >>, step |-> 0]

\* resume: {role: "user", content: `Orchestrator replied to your question
\* "${session.question}": ${JSON.stringify(payload)}`}
ReplyMessage(question, payload) ==
    [role |-> "user", kind |-> "reply", args |-> "none",
     question |-> question, payload |-> JsonStringify(payload), step |-> 0]

\* response.messages: the assistant message of model step k, and the tool
\* message holding the results of the tools called in step k
AssistantMessage(k) ==
    [role |-> "assistant", kind |-> "step", args |-> "none",
     question |-> "none", payload |-> << >>, step |-> k]

ToolMessage(k) ==
    [role |-> "tool", kind |-> "tool-result", args |-> "none",
     question |-> "none", payload |-> << >>, step |-> k]

\* ------------------------------------------------------------------------
\* SessionManager (session-manager.ts)
\* ------------------------------------------------------------------------

\* session identifiers wrap around: counter = (counter + 1) % 1000
SESSION_RING == 1000

\* sessions stored at one time
MaxLive == 2

\* createSession calls followed beyond one full turn of the ring
MaxWrapped == 2

\* the composite tools whose runs can pause: allow_callback
CallbackTools == {n \in ToolNames : ToolConfig(n).allow_callback}

NoSession ==
    [sessionId |-> -1, toolName |-> "none", originalArgs |-> "none",
     messages |-> << >>, question |-> "none", resolve |-> -1]

NoOp ==
    [op |-> "none", sessionId |-> -1, k |-> -1, payload |-> "none",
     ret |-> FALSE, resolved |-> -1, value |-> "none"]

\* the manager's fields, with the promises it handed out
SesState ==
    [counter |-> counter, sessions |-> sessions, waiting |-> waiting,
     created |-> created, lastOp |-> lastOp]

SetSesState(st) ==
    /\ counter' = st.counter
    /\ sessions' = st.sessions
    /\ waiting' = st.waiting
    /\ created' = st.created
    /\ lastOp' = st.lastOp

\* getSession: sessions.get(sessionId)
GetSession(tbl, sessionId) ==
    IF sessionId \in DOMAIN tbl THEN tbl[sessionId] ELSE NoSession

\* hasSession: sessions.has(sessionId)
HasSession(tbl, sessionId) == sessionId \in DOMAIN tbl

\* activeCount: sessions.size
ActiveCount(tbl) == Cardinality(DOMAIN tbl)

\* mutant: the counter is advanced without wrapping
NextCounterNoWrap(c) == c + 1

\* mutant: the counter wraps one step late
NextCounterWrapsLate(c) == (c + 1) % (SESSION_RING + 1)

\* this.counter = (this.counter + 1) % 1000
NextCounter(c) == (c + 1) % SESSION_RING

\* mutant: an occupied identifier keeps the session it holds
CreateSessionKeepsOld(st, toolName, originalArgs, messages, question) ==
    LET sessionId == st.counter
        state == [sessionId |-> sessionId, toolName |-> toolName,
                  originalArgs |-> originalArgs, messages |-> messages,
                  question |-> question, resolve |-> st.created]
    IN [counter |-> NextCounter(st.counter),
        sessions |-> st.sessions @@ (sessionId :> state),
        waiting |-> (st.created :> sessionId) @@ st.waiting,
        created |-> st.created + 1,
        lastOp |-> [NoOp EXCEPT !.op = "create", !.sessionId = sessionId,
                                !.k = st.created, !.ret = TRUE]]

\* createSession: the identifier is the counter; the new state is stored
\* under it whether or not an older session is there (a warning is logged);
\* resolve is the resolver of the promise returned as waitForReply
CreateSession(st, toolName, originalArgs, messages, question) ==
    LET sessionId == st.counter
        state == [sessionId |-> sessionId, toolName |-> toolName,
                  originalArgs |-> originalArgs, messages |-> messages,
                  question |-> question, resolve |-> st.created]
    IN [counter |-> NextCounter(st.counter),
        sessions |-> (sessionId :> state) @@ st.sessions,
        waiting |-> (st.created :> sessionId) @@ st.waiting,
        created |-> st.created + 1,
        lastOp |-> [NoOp EXCEPT !.op = "create", !.sessionId = sessionId,
                                !.k = st.created, !.ret = TRUE]]

\* mutant: a reply to an unknown identifier is reported as delivered
ResumeSessionAlwaysTrue(st, sessionId, payload) ==
    [st EXCEPT !.lastOp = [NoOp EXCEPT !.op = "resume",
                                       !.sessionId = sessionId,
                                       !.payload = payload, !.ret = TRUE]]

\* resumeSession, unknown identifier: a warning is logged, false is returned
ResumeUnknown(st, sessionId, payload) ==
    [st EXCEPT !.lastOp = [NoOp EXCEPT !.op = "resume",
                                       !.sessionId = sessionId,
                                       !.payload = payload, !.ret = FALSE]]

\* mutant: the promise is resolved without the payload
ResumeKnownNoPayload(st, sessionId, payload) ==
    LET session == st.sessions[sessionId]
    IN [st EXCEPT
          !.sessions = [i \in DOMAIN st.sessions \ {sessionId} |->
                           st.sessions[i]],
          !.waiting = [j \in DOMAIN st.waiting \ {session.resolve} |->
                          st.waiting[j]],
          !.lastOp = [NoOp EXCEPT !.op = "resume", !.sessionId = sessionId,
                                  !.payload = payload, !.ret = TRUE,
                                  !.resolved = session.resolve]]

\* mutant: the session stays in the table after its reply was delivered
ResumeKnownKeepsSession(st, sessionId, payload) ==
    LET session == st.sessions[sessionId]
    IN [st EXCEPT
          !.lastOp = [NoOp EXCEPT !.op = "resume", !.sessionId = sessionId,
                                  !.payload = payload, !.ret = TRUE,
                                  !.resolved = session.resolve,
                                  !.value = payload]]

\* resumeSession, known identifier: session.resolve(payload);
\* sessions.delete(sessionId); true is returned
ResumeKnown(st, sessionId, payload) ==
    LET session == st.sessions[sessionId]
    IN [st EXCEPT
          !.sessions = [i \in DOMAIN st.sessions \ {sessionId} |->
                           st.sessions[i]],
          !.waiting = [j \in DOMAIN st.waiting \ {session.resolve} |->
                          st.waiting[j]],
          !.lastOp = [NoOp EXCEPT !.op = "resume", !.sessionId = sessionId,
                                  !.payload = payload, !.ret = TRUE,
                                  !.resolved = session.resolve,
                                  !.value = payload]]

\* mutant: delivering a reply empties the whole table
ResumeSessionDropsAll(st, sessionId, payload) ==
    IF HasSession(st.sessions, sessionId)
    THEN [ResumeKnown(st, sessionId, payload) EXCEPT !.sessions = << >>]
    ELSE ResumeUnknown(st, sessionId, payload)

ResumeSession(st, sessionId, payload) ==
    IF HasSession(st.sessions, sessionId)
    THEN ResumeKnown(st, sessionId, payload)
    ELSE ResumeUnknown(st, sessionId, payload)

\* room for one more stored session: a create that reuses an occupied
\* identifier does not grow the table
RoomFor(st) ==
    HasSession(st.sessions, st.counter) \/ ActiveCount(st.sessions) < MaxLive

\* identifiers whose question a caller may leave unanswered while it goes
\* on: the first and the last of the ring
HeldIds == {0, SESSION_RING - 1}

\* identifiers a caller replies to: those, and the one handed out last
ReplyIds == HeldIds \cup {(counter + SESSION_RING - 1) % SESSION_RING}

\* createSession called directly on the manager
ApiCreateSession(toolName, originalArgs, question) ==
    /\ created < SESSION_RING + MaxWrapped
    /\ RoomFor(SesState)
    /\ DOMAIN sessions \subseteq HeldIds
    /\ SetSesState(CreateSession(SesState, toolName, originalArgs,
                                 <<PromptMessage(originalArgs)>>, question))
    /\ UNCHANGED <<mgrVars, callVars, engVars, pureVars, shutVars, extVars>>

\* resumeSession called directly on the manager
ApiResumeSession(sessionId, payload) ==
    /\ sessionId \in ReplyIds
    /\ SetSesState(ResumeSession(SesState, sessionId, payload))
    /\ UNCHANGED <<mgrVars, callVars, engVars, pureVars, shutVars, extVars>>

\* ------------------------------------------------------------------------
\* ExecutionEngine.execute and the generateText loop
\* ------------------------------------------------------------------------

MAX_STEPS == 10

\* pauses followed in one behaviour of the whole program
MaxPauses == 2

\* a loop run: executeWithMessages(toolName, args, context, messages) and
\* the generateText call it awaits; start is messagesRef.current, produced
\* the response messages generateText has built so far, expired whether
\* AbortSignal.timeout(EXECUTION_TIMEOUT_MS) has fired
NoRun == [pc |-> "none", task |-> "none", steps |-> 0, sawDead |-> FALSE,
          args |-> "none", origin |-> "none", start |-> << >>,
          produced |-> << >>, expired |-> FALSE]

\* what a handler returned to the orchestrator; accumulated is the history
\* of the run up to its end, stopped whether stepCountIs ended the loop
NoResult == [kind |-> "none", task |-> "none", isError |-> FALSE,
             errClass |-> "none", code |-> "none", steps |-> 0,
             sawDead |-> FALSE, origin |-> "none", sessionId |-> -1,
             question |-> "none", accumulated |-> << >>,
             expired |-> FALSE, stopped |-> FALSE]

\* tool names the sub-agent model may ask for
ModelToolNames == {NamespacedName(sA, tA), NamespacedName(sAU, tA),
                   NamespacedName(sAA, tA)}

\* the handler's return for a completed execution: the text, no error flag
CompleteResult(r) ==
    [NoResult EXCEPT !.kind = "text", !.task = r.task, !.steps = r.steps,
                     !.sawDead = r.sawDead, !.origin = r.origin,
                     !.accumulated = r.start \o r.produced,
                     !.expired = r.expired, !.stopped = (r.pc = "stop")]

\* the handler's catch: "Error executing ...", isError: true
ErrorResult(r, errClass, code) ==
    [NoResult EXCEPT !.kind = "error", !.task = r.task, !.isError = TRUE,
                     !.errClass = errClass, !.code = code, !.steps = r.steps,
                     !.sawDead = r.sawDead, !.origin = r.origin,
                     !.accumulated = r.start \o r.produced,
                     !.expired = r.expired]

\* mutant: the pause marker carries no question
CallbackResultNoQuestion(r, sessionId, question) ==
    [NoResult EXCEPT !.kind = "callback", !.task = r.task,
                     !.steps = r.steps, !.sawDead = r.sawDead,
                     !.origin = r.origin, !.sessionId = sessionId,
                     !.accumulated = r.start \o r.produced,
                     !.expired = r.expired]

\* the handler's return for {type: "callback", sessionId, question}:
\* "[SESSION:id] Agent is asking: ...", no error flag
CallbackResult(r, sessionId, question) ==
    [NoResult EXCEPT !.kind = "callback", !.task = r.task,
                     !.steps = r.steps, !.sawDead = r.sawDead,
                     !.origin = r.origin, !.sessionId = sessionId,
                     !.question = question,
                     !.accumulated = r.start \o r.produced,
                     !.expired = r.expired]

\* mutant: a resumed run goes on with the steps and the deadline of the run
\* that paused
StartRunCarrying(task, args, origin, messages) ==
    [NoRun EXCEPT !.pc = "model", !.task = task, !.args = args,
                  !.origin = origin, !.start = messages,
                  !.steps = IF origin = "resume" THEN result.steps ELSE 0,
                  !.expired = origin = "resume" /\ result.expired]

\* executeWithMessages up to its await of generateText
StartRun(task, args, origin, messages) ==
    [NoRun EXCEPT !.pc = "model", !.task = task, !.args = args,
                  !.origin = origin, !.start = messages]

\* the orchestrator invokes a registered composite tool: the handler calls
\* engine.execute, which starts generateText on the cached context
HandlerInvoke(task, args) ==
    /\ registered.created
    /\ task \in registered.tools
    /\ run.pc = "none"
    /\ pending = NoCall
    /\ IF contexts[task].built
       THEN /\ run' = StartRun(task, args, "execute", <<PromptMessage(args)>>)
            /\ result' = NoResult
       ELSE \* throw new Error("No execution context for tool")
            /\ run' = NoRun
            /\ result' = ErrorResult([NoRun EXCEPT !.task = task,
                                                   !.origin = "execute"],
                                     "Error", "none")
    /\ UNCHANGED <<mgrVars, callVars, contexts, engPc, registered, pureVars,
                   sesVars, shutVars, extVars>>

\* the step just taken was the last one allowed by stepCountIs(MAX_STEPS)
AfterToolResult(r) ==
    IF r.steps >= MAX_STEPS THEN "stop" ELSE "model"

\* the model answers with text and no tool call: the loop ends, execute
\* returns {type: "complete"} and the handler returns the text
ModelAnswers ==
    /\ run.pc = "model"
    /\ ~run.expired
    /\ result' = CompleteResult(
                    [run EXCEPT !.steps = run.steps + 1,
                                !.produced = run.produced \o
                                    <<AssistantMessage(run.steps + 1)>>])
    /\ run' = NoRun
    /\ UNCHANGED <<mgrVars, callVars, contexts, engPc, registered, pureVars,
                   sesVars, shutVars, extVars>>

\* the loop stopped at the step bound: complete with the text so far
LoopStops ==
    /\ run.pc = "stop"
    /\ result' = CompleteResult(run)
    /\ run' = NoRun
    /\ UNCHANGED <<mgrVars, callVars, contexts, engPc, registered, pureVars,
                   sesVars, shutVars, extVars>>

\* the tool of the current step has produced its result
ToolResultAdded(r) ==
    [r EXCEPT !.pc = AfterToolResult(r),
              !.produced = r.produced \o <<ToolMessage(r.steps)>>]

\* the wrapper turned an error of callTool into the string "Error: ..."
WrapperCaught(r, call) ==
    [ToolResultAdded(r) EXCEPT
        !.sawDead = r.sawDead \/
            (call.code = "MCP_UNAVAILABLE" /\ call.exitedAtStart
               /\ call.errStatus \in {"failed", "disconnected"})]

\* the model asks for a tool: only a tool of the context is executed, its
\* wrapper calling callTool with the namespaced name it was built for
ModelCallsTool(name) ==
    /\ run.pc = "model"
    /\ ~run.expired
    /\ name \in ModelToolNames
    /\ LET r == [run EXCEPT !.steps = run.steps + 1,
                            !.produced = run.produced \o
                                <<AssistantMessage(run.steps + 1)>>]
       IN IF name \notin contexts[run.task].tools
          THEN \* no such tool: reported to the model, nothing is executed
               /\ run' = ToolResultAdded(r)
               /\ UNCHANGED callVars
          ELSE LET call == CallToolBegin("wrapper", name)
               IN IF call.outcome = "inflight"
                  THEN /\ pending' = call
                       /\ run' = [r EXCEPT !.pc = "tool"]
                       /\ UNCHANGED lastCall
                  ELSE /\ lastCall' = call
                       /\ run' = WrapperCaught(r, call)
                       /\ UNCHANGED pending
    /\ UNCHANGED <<mgrVars, contexts, engPc, registered, result, pureVars,
                   sesVars, shutVars, extVars>>

\* the downstream answers: the wrapper returns the content as a string
WrapperCallReturned(ds) ==
    /\ run.pc = "tool"
    /\ pending.via = "wrapper"
    /\ Serving(pending.serverId)
    /\ lastCall' = CallToolReturned(pending, ds)
    /\ pending' = NoCall
    /\ run' = ToolResultAdded(run)
    /\ UNCHANGED <<mgrVars, contexts, engPc, registered, result, pureVars,
                   sesVars, shutVars, extVars>>

\* the proxied call fails at the transport: the wrapper returns "Error: ..."
WrapperCallFailed ==
    /\ run.pc = "tool"
    /\ pending.via = "wrapper"
    /\ lastCall' = CallToolFailed(pending)
    /\ pending' = NoCall
    /\ run' = WrapperCaught(run, CallToolFailed(pending))
    /\ UNCHANGED <<mgrVars, contexts, engPc, registered, result, pureVars,
                   sesVars, shutVars, extVars>>

\* executeWithMessages, catch: an error that is no ToolExecutionError is
\* rethrown as EXECUTION_TIMEOUT when its message mentions a timeout or an
\* aborted signal, else as LLM_ERROR
ClassifyError(mentionsTimeout) ==
    IF mentionsTimeout THEN "EXECUTION_TIMEOUT" ELSE "LLM_ERROR"

\* the inference call fails with a provider error
ModelFails(mentionsTimeout) ==
    /\ run.pc = "model"
    /\ ~run.expired
    /\ result' = ErrorResult(run, "ToolExecutionError",
                             ClassifyError(mentionsTimeout))
    /\ run' = NoRun
    /\ UNCHANGED <<mgrVars, callVars, contexts, engPc, registered, pureVars,
                   sesVars, shutVars, extVars>>

\* ------------------------------------------------------------------------
\* The wall-clock deadline: AbortSignal.timeout(EXECUTION_TIMEOUT_MS)
\* ------------------------------------------------------------------------

\* the timer of the run's abort signal fires while generateText is awaited
DeadlineElapses ==
    /\ run.pc \in {"model", "tool"}
    /\ ~run.expired
    /\ run' = [run EXCEPT !.expired = TRUE]
    /\ UNCHANGED <<mgrVars, callVars, contexts, engPc, registered, result,
                   pureVars, sesVars, shutVars, extVars>>

\* the inference call is given the aborted signal and rejects with the
\* abort reason, whose message is the runtime's: the catch matches it
\* against "Timeout" and "signal is aborted"
ModelAborted(mentionsTimeout) ==
    /\ run.pc = "model"
    /\ run.expired
    /\ result' = ErrorResult(run, "ToolExecutionError",
                             ClassifyError(mentionsTimeout))
    /\ run' = NoRun
    /\ UNCHANGED <<mgrVars, callVars, contexts, engPc, registered, pureVars,
                   sesVars, shutVars, extVars>>

\* ------------------------------------------------------------------------
\* Pausing and resuming: the reply tool, ExecutionEngine.resume, and the
\* slipsnisse_reply handler
\* ------------------------------------------------------------------------

\* createReplyTool: throw new CallbackRequested(question,
\* [...messagesRef.current]); messagesRef.current is assigned before
\* generateText is called and again only after it has returned
CapturedMessages(r) == r.start

\* the model calls the reply tool of a context that allows callbacks: its
\* execute throws CallbackRequested, the catch of executeWithMessages
\* creates the session and returns {type: "callback", sessionId, question}
ModelPauses(question) ==
    /\ run.pc = "model"
    /\ ~run.expired
    /\ contexts[run.task].allowCallback
    /\ created < MaxPauses
    /\ LET r == [run EXCEPT !.steps = run.steps + 1]
       IN /\ SetSesState(CreateSession(SesState, r.task, r.args,
                                       CapturedMessages(r), question))
          /\ result' = CallbackResult(r, counter, question)
    /\ run' = NoRun
    /\ UNCHANGED <<mgrVars, callVars, contexts, engPc, registered, pureVars,
                   shutVars, extVars>>

\* mutant: the resumed history is the reply message alone
ResumeMessagesNoHistory(session, payload) ==
    <<ReplyMessage(session.question, payload)>>

\* resume: [...session.messages, {role: "user", content: ...}]
ResumeMessages(session, payload) ==
    session.messages \o <<ReplyMessage(session.question, payload)>>

\* mutant: a reply to an unknown session is answered as a completed run
NoSessionResultComplete(sessionId) ==
    [NoResult EXCEPT !.kind = "text", !.origin = "resume",
                     !.sessionId = sessionId]

\* resume: throw new Error("No session found with ID: ..."), which the
\* reply handler returns as "Error resuming session ...", isError: true
NoSessionResult(sessionId) ==
    [ErrorResult([NoRun EXCEPT !.origin = "resume"], "Error", "none")
        EXCEPT !.sessionId = sessionId]

\* the orchestrator invokes slipsnisse_reply: the handler calls
\* engine.resume(session_id, payload)
ReplyInvoke(sessionId, payload) ==
    /\ registered.created
    /\ registered.reply
    /\ run.pc = "none"
    /\ pending = NoCall
    /\ sessionId \in ReplyIds
    /\ LET session == GetSession(sessions, sessionId)
       IN IF ~HasSession(sessions, sessionId)
          THEN /\ result' = NoSessionResult(sessionId)
               /\ run' = NoRun
               /\ UNCHANGED sesVars
          ELSE IF ~contexts[session.toolName].built
          THEN \* throw new Error("No execution context for tool: ...")
               /\ result' = [ErrorResult([NoRun EXCEPT
                                             !.task = session.toolName,
                                             !.origin = "resume"],
                                         "Error", "none")
                                EXCEPT !.sessionId = sessionId]
               /\ run' = NoRun
               /\ UNCHANGED sesVars
          ELSE /\ SetSesState(ResumeSession(SesState, sessionId, payload))
               /\ run' = StartRun(session.toolName, session.originalArgs,
                                  "resume", ResumeMessages(session, payload))
               /\ result' = NoResult
    /\ UNCHANGED <<mgrVars, callVars, contexts, engPc, registered, pureVars,
                   shutVars, extVars>>

\* mutant: the reply tool is offered to every context
ModelAsksReplyAlwaysOffered(question) ==
    /\ run.pc = "model"
    /\ ~run.expired
    /\ created < MaxPauses
    /\ LET r == [run EXCEPT !.steps = run.steps + 1]
       IN /\ SetSesState(CreateSession(SesState, r.task, r.args,
                                       CapturedMessages(r), question))
          /\ result' = CallbackResult(r, counter, question)
    /\ run' = NoRun
    /\ UNCHANGED <<mgrVars, callVars, contexts, engPc, registered, pureVars,
                   shutVars, extVars>>

\* the model asks for the tool named "reply": a context that allows
\* callbacks has it and pauses; for any other context the name is not in
\* the tool set, which is reported to the model and executes nothing
ModelAsksReply(question) ==
    /\ run.pc = "model"
    /\ ~run.expired
    /\ IF contexts[run.task].allowCallback
       THEN ModelPauses(question)
       ELSE /\ run' = ToolResultAdded(
                         [run EXCEPT !.steps = run.steps + 1,
                                     !.produced = run.produced \o
                                         <<AssistantMessage(run.steps + 1)>>])
            /\ UNCHANGED <<mgrVars, callVars, contexts, engPc, registered,
                           result, pureVars, sesVars, shutVars,
                   extVars>>

\* mutant: execute starts the loop without looking for the context
ApiExecuteUnchecked(task, args) ==
    /\ engPc.pc = "ready"
    /\ run.pc = "none"
    /\ pending = NoCall
    /\ run' = StartRun(task, args, "execute", <<PromptMessage(args)>>)
    /\ result' = NoResult
    /\ UNCHANGED <<mgrVars, callVars, contexts, engPc, registered, pureVars,
                   sesVars, shutVars, extVars>>

\* engine.execute(toolName, args) called on the initialised engine, for any
\* configured tool whether or not the server registered it
ApiExecute(task, args) ==
    /\ engPc.pc = "ready"
    /\ run.pc = "none"
    /\ pending = NoCall
    /\ IF contexts[task].built
       THEN /\ run' = StartRun(task, args, "execute", <<PromptMessage(args)>>)
            /\ result' = NoResult
       ELSE \* throw new Error("No execution context for tool")
            /\ run' = NoRun
            /\ result' = ErrorResult([NoRun EXCEPT !.task = task,
                                                   !.origin = "execute"],
                                     "Error", "none")
    /\ UNCHANGED <<mgrVars, callVars, contexts, engPc, registered, pureVars,
                   sesVars, shutVars, extVars>>

\* ------------------------------------------------------------------------
\* Several handler invocations in flight: execute, the pause and resume of
\* engine.ts, each running to its next await without interruption
\* ------------------------------------------------------------------------

\* messages a run may have started with and still pause
MaxHistory == 2

\* each invocation has its own arguments and its model its own question
ConcArgs == [k \in Invocations |-> IF k = 1 THEN "x1" ELSE "x2"]
ConcQuestions == [k \in Invocations |-> IF k = 1 THEN "q1" ELSE "q2"]
ConcPayloads == {"p1"}

\* execute(toolName, args) up to its await of generateText
ConcExecute(k, task) ==
    /\ conc.runs[k].pc = "none"
    /\ contexts[task].built
    /\ conc' = [conc EXCEPT !.runs[k] =
                   [NoExec EXCEPT !.pc = "model", !.task = task,
                                  !.args = ConcArgs[k], !.origin = "execute",
                                  !.start = <<PromptMessage(ConcArgs[k])>>]]
    /\ UNCHANGED <<mgrVars, callVars, engVars, pureVars, sesVars, shutVars,
                   tproc, registry>>

\* generateText returns or throws anything but CallbackRequested: the
\* handler returns and no session is touched
ConcEnds(k) ==
    /\ conc.runs[k].pc = "model"
    /\ conc' = [conc EXCEPT !.runs[k] = NoExec]
    /\ UNCHANGED <<mgrVars, callVars, engVars, pureVars, sesVars, shutVars,
                   tproc, registry>>

\* mutant: the session is made with the arguments of another invocation
ConcPausesShared(k, question) ==
    LET r == conc.runs[k]
        o == CHOOSE i \in Invocations : i # k
    IN /\ r.pc = "model"
       /\ contexts[r.task].allowCallback
       /\ created < SESSION_RING + MaxWrapped
       /\ RoomFor(SesState)
       /\ DOMAIN sessions \subseteq HeldIds
       /\ \A i \in Invocations \ {k} :
             conc.marks[i] # NoMarker => conc.marks[i].sessionId \in HeldIds
       /\ Len(r.start) <= MaxHistory
       /\ SetSesState(CreateSession(SesState, r.task, ConcArgs[o],
                                    CapturedMessages(r), question))
       /\ conc' = [conc EXCEPT
                      !.runs[k] = NoExec,
                      !.marks[k] = [sessionId |-> counter,
                                    question |-> question, n |-> created]]
       /\ UNCHANGED <<mgrVars, callVars, engVars, pureVars, shutVars, tproc,
                      registry>>

\* the catch of CallbackRequested in invocation k: createSession with the
\* parameters and the captured messages of this call, and the marker
\* {type: "callback", sessionId, question} returned to the handler
ConcPauses(k, question) ==
    LET r == conc.runs[k]
    IN /\ r.pc = "model"
       /\ contexts[r.task].allowCallback
       /\ created < SESSION_RING + MaxWrapped
       /\ RoomFor(SesState)
       /\ DOMAIN sessions \subseteq HeldIds
       /\ \A i \in Invocations \ {k} :
             conc.marks[i] # NoMarker => conc.marks[i].sessionId \in HeldIds
       /\ Len(r.start) <= MaxHistory
       /\ SetSesState(CreateSession(SesState, r.task, r.args,
                                    CapturedMessages(r), question))
       /\ conc' = [conc EXCEPT
                      !.runs[k] = NoExec,
                      !.marks[k] = [sessionId |-> counter,
                                    question |-> question, n |-> created]]
       /\ UNCHANGED <<mgrVars, callVars, engVars, pureVars, shutVars, tproc,
                      registry>>

\* mutant: resume reads the session and leaves it in the table
ConcResumeKeepsSession(j, k, payload) ==
    LET sessionId == conc.marks[k].sessionId
        session == GetSession(sessions, sessionId)
    IN /\ conc.runs[j].pc = "none"
       /\ conc.marks[k] # NoMarker
       /\ IF ~HasSession(sessions, sessionId)
          THEN conc' = [conc EXCEPT !.last =
                           [op |-> "resume", sessionId |-> sessionId,
                            accepted |-> FALSE, from |-> -1]]
          ELSE conc' = [conc EXCEPT
                           !.runs[j] =
                               [pc |-> "model", task |-> session.toolName,
                                args |-> session.originalArgs,
                                origin |-> "resume",
                                start |-> ResumeMessages(session, payload),
                                from |-> session.resolve,
                                answered |-> conc.marks[k].n],
                           !.last =
                               [op |-> "resume", sessionId |-> sessionId,
                                accepted |-> TRUE, from |-> session.resolve]]
       /\ UNCHANGED <<mgrVars, callVars, engVars, pureVars, sesVars, shutVars,
                      tproc, registry>>

\* invocation j of the reply handler, with the identifier of the marker that
\* invocation k returned: resume up to its await of generateText
ConcResume(j, k, payload) ==
    LET sessionId == conc.marks[k].sessionId
        session == GetSession(sessions, sessionId)
    IN /\ conc.runs[j].pc = "none"
       /\ conc.marks[k] # NoMarker
       /\ IF ~HasSession(sessions, sessionId)
          THEN \* throw new Error("No session found with ID: ...")
               /\ conc' = [conc EXCEPT !.last =
                              [op |-> "resume", sessionId |-> sessionId,
                               accepted |-> FALSE, from |-> -1]]
               /\ UNCHANGED sesVars
          ELSE /\ SetSesState(ResumeSession(SesState, sessionId, payload))
               /\ conc' = [conc EXCEPT
                              !.runs[j] =
                                  [pc |-> "model", task |-> session.toolName,
                                   args |-> session.originalArgs,
                                   origin |-> "resume",
                                   start |-> ResumeMessages(session, payload),
                                   from |-> session.resolve,
                                   answered |-> conc.marks[k].n],
                              !.last =
                                  [op |-> "resume", sessionId |-> sessionId,
                                   accepted |-> TRUE,
                                   from |-> session.resolve]]
       /\ UNCHANGED <<mgrVars, callVars, engVars, pureVars, shutVars, tproc,
                      registry>>

\* the orchestrator drops a marker whose session is gone
ConcForget(k) ==
    /\ conc.marks[k] # NoMarker
    /\ ~HasSession(sessions, conc.marks[k].sessionId)
    /\ conc' = [conc EXCEPT !.marks[k] = NoMarker]
    /\ UNCHANGED <<mgrVars, callVars, engVars, pureVars, sesVars, shutVars,
                   tproc, registry>>

\* ------------------------------------------------------------------------
\* The provider registry: getModel and providerCache (registry.ts)
\* ------------------------------------------------------------------------

ProviderNames == {"openai", "bare", "missing"}
ModelIds == {"m1", "m2"}

\* what import("@ai-sdk/<name>") gives: "openai" exports a factory and a
\* default provider function, "bare" a default provider function only, and
\* the package of "missing" is not installed
Packages ==
    [openai |-> [installed |-> TRUE, factory |-> TRUE, default |-> TRUE],
     bare |-> [installed |-> TRUE, factory |-> FALSE, default |-> TRUE],
     missing |-> [installed |-> FALSE, factory |-> FALSE, default |-> FALSE]]

\* the options argument: undefined, or endpoint, apiKey and providerOptions
OptionSets ==
    {NoOptions,
     [given |-> TRUE, endpoint |-> "e1", apiKey |-> "k1",
      providerOptions |-> "undefined"],
     [given |-> TRUE, endpoint |-> "undefined", apiKey |-> "k2",
      providerOptions |-> "po1"]}

\* if (options.endpoint), if (options.apiKey): undefined and "" are skipped
Truthy(v) == v \notin {"undefined", ""}

\* the provider function of the module's default export, configured by the
\* environment
DefaultProvider == [made |-> "default", baseURL |-> "unset",
                    apiKey |-> "unset", rest |-> "unset"]

\* factoryFn({...options.providerOptions, baseURL, apiKey})
ConfiguredProvider(options) ==
    [made |-> "factory",
     baseURL |-> IF Truthy(options.endpoint) THEN options.endpoint
                 ELSE "unset",
     apiKey |-> IF Truthy(options.apiKey) THEN options.apiKey ELSE "unset",
     rest |-> IF options.providerOptions = "undefined" THEN "unset"
              ELSE options.providerOptions]

\* providerFn(modelId)
ModelHandle(providerName, providerFn, modelId) ==
    [providerName |-> providerName, modelId |-> modelId,
     made |-> providerFn.made, baseURL |-> providerFn.baseURL,
     apiKey |-> providerFn.apiKey, rest |-> providerFn.rest]

\* providerCache.has(providerName)
ProviderCacheHas(cache, providerName) == providerName \in DOMAIN cache

\* the end of getModel: providerCache.get(providerName)(modelId)
RegReturn(cache, call, cached) ==
    [kind |-> "handle", providerName |-> call.providerName,
     modelId |-> call.modelId, options |-> call.options,
     handle |-> ModelHandle(call.providerName, cache[call.providerName],
                            call.modelId),
     cached |-> cached]

\* throw new Error("Failed to load provider ...")
RegThrow(call) ==
    [NoRegResult EXCEPT !.kind = "error", !.providerName = call.providerName,
                        !.modelId = call.modelId, !.options = call.options]

\* getModel is called: with the provider in the cache it returns the cached
\* provider's handle; otherwise it awaits the import of the package
GetModelCalled(k, providerName, modelId, options) ==
    /\ registry.calls[k].pc = "none"
    /\ LET call == [pc |-> "importing", providerName |-> providerName,
                    modelId |-> modelId, options |-> options]
       IN IF ProviderCacheHas(registry.cache, providerName)
          THEN registry' = [registry EXCEPT
                               !.last = RegReturn(registry.cache, call, TRUE)]
          ELSE registry' = [registry EXCEPT !.calls[k] = call]
    /\ UNCHANGED <<mgrVars, callVars, engVars, pureVars, sesVars, shutVars,
                   tproc, conc>>

\* the import resolves: the provider is made by the factory when options
\* were given and a factory is exported, else it is the default provider
\* function; it is stored under the provider name, over an entry another
\* call stored in the meantime, and its handle is returned
ImportResolved(k) ==
    /\ registry.calls[k].pc = "importing"
    /\ Packages[registry.calls[k].providerName].installed
    /\ LET call == registry.calls[k]
           pkg == Packages[call.providerName]
           providerFn == IF call.options.given /\ pkg.factory
                         THEN ConfiguredProvider(call.options)
                         ELSE DefaultProvider
           cache == (call.providerName :> providerFn) @@ registry.cache
       IN registry' =
             IF (call.options.given /\ pkg.factory) \/ pkg.default
             THEN [cache |-> cache,
                   calls |-> [registry.calls EXCEPT ![k] = NoRegCall],
                   last |-> RegReturn(cache, call, FALSE)]
             ELSE [registry EXCEPT !.calls[k] = NoRegCall,
                                   !.last = RegThrow(call)]
    /\ UNCHANGED <<mgrVars, callVars, engVars, pureVars, sesVars, shutVars,
                   tproc, conc>>

\* the import rejects: the package is not installed
ImportRejected(k) ==
    /\ registry.calls[k].pc = "importing"
    /\ ~Packages[registry.calls[k].providerName].installed
    /\ registry' = [registry EXCEPT !.calls[k] = NoRegCall,
                                    !.last = RegThrow(registry.calls[k])]
    /\ UNCHANGED <<mgrVars, callVars, engVars, pureVars, sesVars, shutVars,
                   tproc, conc>>

\* ------------------------------------------------------------------------
\* What the handlers hand back to the orchestrator (server.ts)
\* ------------------------------------------------------------------------

\* the message of the error that execute or resume threw: the engine's
\* ToolExecutionError prefixes the underlying message by its code, the
\* plain errors name the missing session or context
ThrownMessage(res) ==
    IF res.errClass = "ToolExecutionError"
    THEN IF res.code = "EXECUTION_TIMEOUT"
         THEN <<"Execution timed out: ", "cause">>
         ELSE <<"Provider error: ", "cause">>
    ELSE IF res.task = "none"
    THEN <<"No session found with ID: ", "id">>
    ELSE <<"No execution context for tool: ", res.task>>

\* mutant: the catch of the handlers returns its text without the error flag
HandlerReturnUnflagged(res) ==
    IF res.kind = "callback"
    THEN [lead |-> "[SESSION:", sessionId |-> res.sessionId,
          question |-> res.question, message |-> << >>,
          isError |-> "undefined"]
    ELSE IF res.kind = "text"
    THEN [lead |-> "text", sessionId |-> -1, question |-> "none",
          message |-> << >>, isError |-> "undefined"]
    ELSE [lead |-> "Error", sessionId |-> -1, question |-> "none",
          message |-> ThrownMessage(res), isError |-> "undefined"]

\* the value the composite tool handler and the reply handler return, by
\* the parts of its text: the pause marker "[SESSION:id] Agent is asking:
\* question", the final text, or "Error executing ...: message" /
\* "Error resuming session ...: message" with isError: true
HandlerReturn(res) ==
    IF res.kind = "callback"
    THEN [lead |-> "[SESSION:", sessionId |-> res.sessionId,
          question |-> res.question, message |-> << >>,
          isError |-> "undefined"]
    ELSE IF res.kind = "text"
    THEN [lead |-> "text", sessionId |-> -1, question |-> "none",
          message |-> << >>, isError |-> "undefined"]
    ELSE [lead |-> "Error", sessionId |-> -1, question |-> "none",
          message |-> ThrownMessage(res), isError |-> "true"]

\* ------------------------------------------------------------------------
\* ClientManager.shutdown and the signal handler of the CLI (cli.ts)
\* ------------------------------------------------------------------------

\* iteration orders of the connection map: its keys in insertion order,
\* which is the order in which the connectServer calls ended
MapOrders(conns) ==
    LET keys == {s \in ServerIds : conns[s].status # "absent"}
    IN {f \in [1..Cardinality(keys) -> keys] :
           \A i, j \in 1..Cardinality(keys) : i # j => f[i] # f[j]}

\* the first loop up to its next await: entries that are not connected are
\* passed over
RECURSIVE SkipNotConnected(_, _)
SkipNotConnected(todo, conns) ==
    IF todo = << >> THEN << >>
    ELSE IF conns[Head(todo)].status = "connected" THEN todo
    ELSE SkipNotConnected(Tail(todo), conns)

\* proc.kill(): the signal is delivered to a process that is still running
KillOne(p) == [p EXCEPT !.killed = (p.state = "running")]

\* mutant: processes of servers that are not connected are not killed
KillTargetsConnectedOnly(procKeys, procs) ==
    {s \in procKeys : ~procs[s].killed /\ connections[s].status = "connected"}

\* the second loop: if (!proc.killed) proc.kill()
KillTargets(procKeys, procs) ==
    {s \in procKeys : ~procs[s].killed}

\* shutdown from the entry todo[1] of the first loop on: await the close of
\* the next connected entry, or, when none is left, kill the processes and
\* clear both maps
ShutdownFrom(sh, todo) ==
    LET rest == SkipNotConnected(todo, connections)
    IN IF rest # << >>
       THEN /\ shut' = [sh EXCEPT !.pc = "closing", !.awaiting = Head(rest),
                                  !.todo = Tail(rest),
                                  !.closed = sh.closed \cup {Head(rest)},
                                  !.connectedAtVisit =
                                      sh.connectedAtVisit \cup {Head(rest)}]
            /\ UNCHANGED <<connections, processes, proc>>
       ELSE LET targets == KillTargets(processes, proc)
            IN /\ shut' = [sh EXCEPT !.pc = "done", !.awaiting = << >>,
                                     !.todo = << >>,
                                     !.procsAtKill = processes,
                                     !.killSent = targets]
               /\ proc' = [s \in ServerIds |->
                              IF s \in targets THEN KillOne(proc[s])
                              ELSE proc[s]]
               /\ connections' = [s \in ServerIds |-> NoConn]
               /\ processes' = {}

\* shutdown() is called once init has returned
Shutdown ==
    /\ mgrPc = "ready"
    /\ shut.pc = "idle"
    /\ \E order \in MapOrders(connections) : ShutdownFrom(shut, order)
    /\ UNCHANGED <<cfg, connPc, mgrPc, callVars, engVars, pureVars, sesVars,
                   extVars>>

\* await conn.client.close() resolves
CloseResolved ==
    /\ shut.pc = "closing"
    /\ ShutdownFrom(shut, shut.todo)
    /\ UNCHANGED <<cfg, connPc, mgrPc, callVars, engVars, pureVars, sesVars,
                   extVars>>

\* await conn.client.close() rejects: the error is logged
CloseRejected ==
    /\ shut.pc = "closing"
    /\ ShutdownFrom([shut EXCEPT !.closeFailed =
                                    shut.closeFailed \cup {shut.awaiting}],
                    shut.todo)
    /\ UNCHANGED <<cfg, connPc, mgrPc, callVars, engVars, pureVars, sesVars,
                   extVars>>

\* SIGINT or SIGTERM once main has registered its handlers, which it does
\* after createServer and startServer: the handler calls shutdown()
SignalShutdown ==
    /\ registered.created
    /\ Shutdown

\* the handler after shutdown() has returned: process.exit(0)
ProcessExit ==
    /\ shut.pc = "done"
    /\ registered.created
    /\ shut' = [shut EXCEPT !.pc = "exited"]
    /\ UNCHANGED <<mgrVars, callVars, engVars, pureVars, sesVars, extVars>>

\* ------------------------------------------------------------------------
\* Specifications
\* ------------------------------------------------------------------------

NoAvail == [phase |-> "idle"]

InitIdle ==
    /\ connections = [s \in ServerIds |-> NoConn]
    /\ processes = {}
    /\ proc = [s \in ServerIds |-> NoProc]
    /\ connPc = [s \in ServerIds |-> "idle"]
    /\ mgrPc = "new"
    /\ pending = NoCall
    /\ lastCall = NoCall
    /\ contexts = [n \in ToolNames |-> NoCtx]
    /\ engPc = [pc |-> "new", idx |-> 0]
    /\ registered = [created |-> FALSE, tools |-> {}, reply |-> FALSE,
                     replyEnabled |-> FALSE]
    /\ run = NoRun
    /\ result = NoResult
    /\ counter = 0
    /\ sessions = << >>
    /\ waiting = << >>
    /\ created = 0
    /\ lastOp = NoOp
    /\ shut = NoShut
    /\ tproc = [s \in ServerIds |-> "none"]
    /\ conc = NoConc
    /\ registry = NoReg

\* the manager on its own: init, health tracking, direct callTool
InitManager ==
    /\ cfg \in [ServerIds -> Transports]
    /\ InitIdle
    /\ nm = NoNames
    /\ avail = NoAvail

NextManager ==
    \/ MgrInit
    \/ \E s \in ServerIds : ConnectResolved(s)
    \/ \E s \in ServerIds : ConnectRejected(s)
    \/ \E s \in ServerIds : ListToolsResolved(s)
    \/ \E s \in ServerIds : ListToolsRejected(s)
    \/ \E s \in ServerIds, code \in ExitCodes : ProcExit(s, code)
    \/ \E name \in ApiNames : ApiCallTool(name)
    \/ \E ds \in DsResults : ApiCallReturned(ds)
    \/ ApiCallFailed

SpecManager == InitManager /\ [][NextManager]_vars

\* the program from its start: manager, engine, protocol server, and task
\* executions that run to their end
Init ==
    /\ cfg \in [ServerIds -> Transports]
    /\ InitIdle
    /\ nm = NoNames
    /\ avail = NoAvail

Next ==
    \/ MgrInit
    \/ \E s \in ServerIds : ConnectResolved(s)
    \/ \E s \in ServerIds : ConnectRejected(s)
    \/ \E s \in ServerIds : ListToolsResolved(s)
    \/ \E s \in ServerIds : ListToolsRejected(s)
    \/ \E s \in ServerIds, code \in ExitCodes : ProcExit(s, code)
    \/ EngineInit
    \/ GetModelResolved
    \/ GetModelRejected
    \/ CreateServer
    \/ \E task \in ToolNames, args \in Args : HandlerInvoke(task, args)
    \/ ModelAnswers
    \/ LoopStops
    \/ \E name \in ModelToolNames : ModelCallsTool(name)
    \/ \E ds \in DsResults : WrapperCallReturned(ds)
    \/ WrapperCallFailed
    \/ \E b \in BOOLEAN : ModelFails(b)
    \/ DeadlineElapses
    \/ \E b \in BOOLEAN : ModelAborted(b)

Spec == Init /\ [][Next]_vars

\* the naming functions on drawn server ids and tool names
InitNames ==
    /\ cfg = [s \in ServerIds |-> "stdio"]
    /\ InitIdle
    /\ nm \in [phase : {"drawn"}, s1 : Strs, t1 : Strs, s2 : Strs, t2 : Strs]
    /\ avail = NoAvail

NextNames ==
    \/ BuildNames
    \/ SplitName

SpecNames == InitNames /\ [][NextNames]_vars

\* getAvailableTools on drawn connection tables and whitelists
InitTools ==
    /\ cfg = [s \in ServerIds |-> "stdio"]
    /\ InitIdle
    /\ nm = NoNames
    /\ avail \in [phase : {"drawn"}, conns : ConnTables]

NextTools ==
    \E wl \in Whitelists : CallGetAvailableTools(wl)

SpecTools == InitTools /\ [][NextTools]_vars

\* hasRequiredServers on drawn connection tables and whitelists
ServerWhitelists ==
    {w \in Whitelists :
        \A i \in 1..Len(w) : w[i].toolNames \in {<< >>, <<tA>>}}

NextServers ==
    \E wl \in ServerWhitelists : CallHasRequiredServers(wl)

SpecServers == InitTools /\ [][NextServers]_vars

\* the engine of a started program, every server connected and its process
\* running: contexts, registration, task executions, pauses and replies
InitEngine ==
    /\ cfg = [s \in ServerIds |-> "stdio"]
    /\ connections = [s \in ServerIds |-> ConnectedEntry(Offered(s))]
    /\ processes = ServerIds
    /\ proc = [s \in ServerIds |-> [NoProc EXCEPT !.state = "running"]]
    /\ connPc = [s \in ServerIds |-> "ok"]
    /\ mgrPc = "ready"
    /\ pending = NoCall
    /\ lastCall = NoCall
    /\ contexts = [n \in ToolNames |-> NoCtx]
    /\ engPc = [pc |-> "new", idx |-> 0]
    /\ registered = [created |-> FALSE, tools |-> {}, reply |-> FALSE,
                     replyEnabled |-> FALSE]
    /\ run = NoRun
    /\ result = NoResult
    /\ counter = 0
    /\ sessions = << >>
    /\ waiting = << >>
    /\ created = 0
    /\ lastOp = NoOp
    /\ shut = NoShut
    /\ tproc = [s \in ServerIds |-> "running"]
    /\ conc = NoConc
    /\ registry = NoReg
    /\ nm = NoNames
    /\ avail = NoAvail

\* the arguments of a request, the tool the sub-agent asks for and the
\* answer of its downstream; the engine passes the arguments through
\* unread (engine.ts 225-246), so one value stands for them here
EngineArgs == {"x1"}
EngineToolNames == {NamespacedName(sA, tA)}
EngineDsResults == {[content |-> "c1", isError |-> "undefined"]}

NextEngine ==
    \/ EngineInit
    \/ GetModelResolved
    \/ GetModelRejected
    \/ CreateServer
    \/ \E task \in ToolNames, args \in EngineArgs : HandlerInvoke(task, args)
    \/ ModelAnswers
    \/ LoopStops
    \/ \E name \in EngineToolNames : ModelCallsTool(name)
    \/ \E ds \in EngineDsResults : WrapperCallReturned(ds)
    \/ WrapperCallFailed
    \/ \E b \in BOOLEAN : ModelFails(b)
    \/ \E q \in Questions : ModelAsksReply(q)
    \/ \E p \in Payloads : \E id \in ReplyIds : ReplyInvoke(id, p)

SpecEngine == InitEngine /\ [][NextEngine]_vars

\* the same engine with the wall-clock deadline of each run
NextTimed ==
    \/ EngineInit
    \/ GetModelResolved
    \/ GetModelRejected
    \/ CreateServer
    \/ \E task \in ToolNames, args \in EngineArgs : HandlerInvoke(task, args)
    \/ ModelAnswers
    \/ LoopStops
    \/ \E name \in EngineToolNames : ModelCallsTool(name)
    \/ \E ds \in EngineDsResults : WrapperCallReturned(ds)
    \/ WrapperCallFailed
    \/ \E b \in BOOLEAN : ModelFails(b)
    \/ DeadlineElapses
    \/ \E b \in BOOLEAN : ModelAborted(b)
    \/ \E q \in Questions : ModelPauses(q)
    \/ \E p \in Payloads : \E id \in ReplyIds : ReplyInvoke(id, p)

\* what the program itself schedules: the timer of AbortSignal.timeout
\* fires, generateText rejects once its signal is aborted, and the code
\* after generateText runs. The model and the downstream answer when they
\* choose to, or never.
FairTimed ==
    /\ WF_vars(DeadlineElapses)
    /\ WF_vars(\E b \in BOOLEAN : ModelAborted(b))
    /\ WF_vars(LoopStops)

SpecTimed == InitEngine /\ [][NextTimed]_vars /\ FairTimed

\* a started program over the rest of its lifetime: task executions with
\* their deadline, a pause and replies, the crash of a downstream process,
\* and the shutdown signal
MaxLifeSteps == 2
MaxLifePauses == 1

LifeToolNames == {NamespacedName(sA, tA)}
LifeQuestions == {"q1"}
LifePayloads == {"p1"}
LifeExitCodes == {[isNull |-> FALSE, n |-> 1]}

NextLife ==
    \/ \E code \in LifeExitCodes : ProcExit(sA, code)
    \/ EngineInit
    \/ GetModelResolved
    \/ GetModelRejected
    \/ CreateServer
    \/ \E task \in ToolNames, args \in EngineArgs : HandlerInvoke(task, args)
    \/ ModelAnswers
    \/ \E name \in LifeToolNames :
           run.steps < MaxLifeSteps /\ ModelCallsTool(name)
    \/ \E ds \in EngineDsResults : WrapperCallReturned(ds)
    \/ WrapperCallFailed
    \/ \E b \in BOOLEAN : ModelFails(b)
    \/ DeadlineElapses
    \/ \E b \in BOOLEAN : ModelAborted(b)
    \/ \E q \in LifeQuestions : created < MaxLifePauses /\ ModelPauses(q)
    \/ \E p \in LifePayloads : \E id \in ReplyIds : ReplyInvoke(id, p)
    \/ SignalShutdown
    \/ CloseResolved
    \/ CloseRejected
    \/ ProcessExit

SpecLife == InitEngine /\ [][NextLife]_vars

\* the manager on its own over its lifetime: init, exits of the downstream
\* processes, direct callTool, and shutdown
ShutdownNames == {NamespacedName(sA, tA)}

NextShutdown ==
    \/ MgrInit
    \/ \E s \in ServerIds : ConnectResolved(s)
    \/ \E s \in ServerIds : ConnectRejected(s)
    \/ \E s \in ServerIds : ListToolsResolved(s)
    \/ \E s \in ServerIds : ListToolsRejected(s)
    \/ \E s \in ServerIds, code \in ExitCodes : ProcExit(s, code)
    \/ \E name \in ShutdownNames : ApiCallTool(name)
    \/ \E ds \in EngineDsResults : ApiCallReturned(ds)
    \/ ApiCallFailed
    \/ Shutdown
    \/ CloseResolved
    \/ CloseRejected

\* a close that has been awaited settles, one way or the other
FairShutdown ==
    WF_vars(CloseResolved \/ CloseRejected)

SpecShutdown == InitManager /\ [][NextShutdown]_vars /\ FairShutdown

\* the manager with both children of each stdio server: the one spawned by
\* createTransport and the one of the transport it returns
NextTransport ==
    \/ MgrInit
    \/ \E s \in ServerIds : ConnectResolved(s)
    \/ \E s \in ServerIds : ConnectRejected(s)
    \/ \E s \in ServerIds : ListToolsResolved(s)
    \/ \E s \in ServerIds : ListToolsRejected(s)
    \/ \E s \in ServerIds, code \in LifeExitCodes : ProcExit(s, code)
    \/ \E s \in ServerIds : TransportExit(s)
    \/ \E name \in ShutdownNames : ApiCallTool(name)
    \/ \E ds \in EngineDsResults : ApiCallReturned(ds)
    \/ ApiCallFailed

SpecTransport == InitManager /\ [][NextTransport]_vars

\* the start of the program, followed by executions called on the engine:
\* connections, exits of downstream processes, the context cache,
\* registration, and runs that answer, fail or ask the orchestrator
NextStart ==
    \/ MgrInit
    \/ \E s \in ServerIds : ConnectResolved(s)
    \/ \E s \in ServerIds : ConnectRejected(s)
    \/ \E s \in ServerIds : ListToolsResolved(s)
    \/ \E s \in ServerIds : ListToolsRejected(s)
    \/ \E s \in ServerIds, code \in ExitCodes : ProcExit(s, code)
    \/ EngineInit
    \/ GetModelResolved
    \/ GetModelRejected
    \/ CreateServer
    \/ \E task \in ToolNames, args \in EngineArgs : ApiExecute(task, args)
    \/ ModelAnswers
    \/ LoopStops
    \/ \E b \in BOOLEAN : ModelFails(b)
    \/ \E q \in Questions : ModelAsksReply(q)

SpecStart == Init /\ [][NextStart]_vars

\* a started engine with several handler invocations in flight. Every
\* interleaving of the two invocations is followed while the first sessions
\* are made and again when the ring wraps; in between, invocation 2 alone
\* pauses and is answered, which carries the counter round the ring
NearEdge ==
    created \in (0..MaxLive) \cup
                ((SESSION_RING - 1)..(SESSION_RING + MaxWrapped))

Acting(k) == k = 1 => NearEdge

NextConc ==
    \/ EngineInit
    \/ GetModelResolved
    \/ \E k \in Invocations, task \in CallbackTools :
           engPc.pc = "ready" /\ Acting(k) /\ ConcExecute(k, task)
    \/ \E k \in Invocations : Acting(k) /\ ConcEnds(k)
    \/ \E k \in Invocations : Acting(k) /\ ConcPauses(k, ConcQuestions[k])
    \/ \E j, k \in Invocations, p \in ConcPayloads :
           Acting(j) /\ (NearEdge \/ k = 2) /\ ConcResume(j, k, p)
    \/ \E k \in Invocations : NearEdge /\ ConcForget(k)

SpecConc == InitEngine /\ [][NextConc]_vars

\* the session manager on its own: createSession and resumeSession
InitSessions ==
    /\ cfg = [s \in ServerIds |-> "stdio"]
    /\ InitIdle
    /\ nm = NoNames
    /\ avail = NoAvail

NextSessions ==
    \/ \E n \in CallbackTools, a \in Args, q \in Questions :
           ApiCreateSession(n, a, q)
    \/ \E p \in Payloads : \E id \in ReplyIds : ApiResumeSession(id, p)

SpecSessions == InitSessions /\ [][NextSessions]_vars

\* the registry on its own: any sequence of getModel calls, up to two of
\* them awaiting their import at once
NextRegistry ==
    \/ \E k \in RegCalls, p \in ProviderNames, m \in ModelIds,
          o \in OptionSets : GetModelCalled(k, p, m, o)
    \/ \E k \in RegCalls : ImportResolved(k)
    \/ \E k \in RegCalls : ImportRejected(k)

SpecRegistry == InitSessions /\ [][NextRegistry]_vars

\* ------------------------------------------------------------------------
\* Claims
\* ------------------------------------------------------------------------

InitReturns == mgrPc # "ready" /\ mgrPc' = "ready"

\* C1 (as stated): when init returns, every server whose attempt succeeded
\* is connected with its discovered tools and every server whose attempt
\* failed is failed with no tools.
C1_InitFaultIsolation ==
    [][InitReturns =>
        \A s \in ServerIds :
            /\ connPc'[s] = "ok" =>
                  /\ connections'[s].status = "connected"
                  /\ connections'[s].tools = Offered(s)
            /\ connPc'[s] = "failed" =>
                  /\ connections'[s].status = "failed"
                  /\ connections'[s].tools = << >>]_vars

\* the exit observer found the server's entry and set its status
ExitApplied(p) == p.state = "exited" /\ p.sawEntry

\* C1 (amended): when init returns every server has an entry; a successful
\* attempt left the discovered tools and a failed one no tools; the status
\* is connected, respectively failed, unless the exit of the server's
\* process was observed after the entry was stored, and then it is the
\* status the exit observer set.
C1_InitFaultIsolationUnlessExit ==
    [][InitReturns =>
        \A s \in ServerIds :
            /\ connPc'[s] \in {"ok", "failed"}
            /\ connections'[s].status # "absent"
            /\ connections'[s].tools =
                  (IF connPc'[s] = "ok" THEN Offered(s) ELSE << >>)
            /\ connections'[s].status =
                  (IF ExitApplied(proc'[s]) THEN ExitStatus(proc'[s].code)
                   ELSE IF connPc'[s] = "ok" THEN "connected"
                   ELSE "failed")]_vars

\* C1 witness: init has returned with one server connected and one failed
C1_Witness ==
    /\ mgrPc = "ready"
    /\ connPc[sA] = "ok" /\ connections[sA].status = "connected"
    /\ connPc[sAU] = "failed" /\ connections[sAU].status = "failed"
    /\ cfg[sAU] = "stdio"

NoSep(str) == ~Contains(str, NAMESPACE_SEPARATOR)

C4_UniqueNames ==
    (nm.phase \in {"built", "split"}
        /\ <<nm.s1, nm.t1>> # <<nm.s2, nm.t2>>
        /\ NoSep(nm.s1) /\ NoSep(nm.t1) /\ NoSep(nm.s2) /\ NoSep(nm.t2)) =>
        nm.n1 # nm.n2

\* C4 (amended): two distinct pairs whose components do not contain the
\* separator and whose server ids do not end in "_" get different names.
C4_UniqueNamesNoTrailingUnderscore ==
    (nm.phase \in {"built", "split"}
        /\ <<nm.s1, nm.t1>> # <<nm.s2, nm.t2>>
        /\ NoSep(nm.s1) /\ NoSep(nm.t1) /\ NoSep(nm.s2) /\ NoSep(nm.t2)
        /\ ~EndsWith(nm.s1, "_") /\ ~EndsWith(nm.s2, "_")) =>
        nm.n1 # nm.n2

\* C4 witness: the same tool name on two servers, named apart
C4_Witness ==
    /\ nm.phase = "built"
    /\ nm.s1 = sA /\ nm.s2 = sAA /\ nm.t1 = tA /\ nm.t2 = tA
    /\ nm.n1 # nm.n2

\* what getAvailableTools returned, as (server, tool) pairs
Occurrences(seq, x) == Cardinality({i \in 1..Len(seq) : seq[i] = x})

Returned(s, t) ==
    {i \in 1..Len(avail.tools) :
        /\ avail.tools[i].serverId = s
        /\ avail.tools[i].originalName = t}

Listed(s, t) ==
    \E i \in 1..Len(avail.internalTools) :
        /\ avail.internalTools[i].serverId = s
        /\ HasTool(avail.internalTools[i].toolNames, t)

TimesListed(s, t) ==
    LET e == CHOOSE x \in {avail.internalTools[i] :
                              i \in 1..Len(avail.internalTools)} :
                 x.serverId = s
    IN Occurrences(e.toolNames, t)

\* whitelisted, server connected, tool discovered
Eligible(s, t) ==
    /\ Listed(s, t)
    /\ GetConn(avail.conns, s).status = "connected"
    /\ HasTool(GetConn(avail.conns, s).tools, t)

WellNamed ==
    \A i \in 1..Len(avail.tools) :
        /\ Eligible(avail.tools[i].serverId, avail.tools[i].originalName)
        /\ avail.tools[i].namespacedName =
              avail.tools[i].serverId \o <<"_", "_">>
                  \o avail.tools[i].originalName

AllServers == ServerIds \cup {sAA}

AllTools == {tA, tUA}

\* C5 (as stated): getAvailableTools returns exactly one namespaced tool for
\* each whitelisted pair whose server is connected and whose tool was
\* discovered, and nothing else.
C5_AvailableTools ==
    avail.phase = "done" =>
        /\ WellNamed
        /\ \A s \in AllServers, t \in AllTools :
              Eligible(s, t) => Cardinality(Returned(s, t)) = 1

\* C5 (amended): getAvailableTools returns one namespaced tool for each
\* occurrence of a tool name in the whitelist whose server is connected and
\* whose tool was discovered (exactly one per pair when no name is listed
\* twice), and nothing else.
C5_AvailableToolsPerOccurrence ==
    avail.phase = "done" =>
        /\ WellNamed
        /\ \A s \in AllServers, t \in AllTools :
              Eligible(s, t) =>
                  Cardinality(Returned(s, t)) = TimesListed(s, t)

\* C5 witness: a whitelist naming an unknown server, a server that is not
\* connected and an undiscovered tool, of which one tool is returned
C5_Witness ==
    /\ avail.phase = "done"
    /\ Len(avail.tools) = 1
    /\ avail.conns[sA].status = "connected"
    /\ avail.conns[sA].tools = <<tA>>
    /\ Listed(sA, tUA) /\ Listed(sA, tA)
    /\ \E i \in 1..Len(avail.internalTools) :
           /\ GetConn(avail.conns, avail.internalTools[i].serverId).status
                 \in {"absent", "failed", "disconnected"}
           /\ avail.internalTools[i].toolNames # << >>

\* the three refusals of callTool, from the name and the table at call time
IsMalformed(c) == ~Contains(c.name, NAMESPACE_SEPARATOR)
IsUnknown(c) == ~IsMalformed(c) /\ c.statusAtStart = "absent"
IsNotConnected(c) ==
    ~IsMalformed(c) /\ c.statusAtStart \in {"failed", "disconnected"}

Ended(c) == c.outcome \in {"returned", "threw"}

\* C6 (as stated): in each of the three cases callTool fails with a typed
\* error (a ToolExecutionError with a kind) and makes no downstream call;
\* for a server that is not connected the error carries the status.
C6_TypedRefusals ==
    /\ (Ended(lastCall) /\ (IsMalformed(lastCall) \/ IsUnknown(lastCall)
                               \/ IsNotConnected(lastCall))) =>
          /\ lastCall.outcome = "threw"
          /\ ~lastCall.proxied
          /\ lastCall.errClass = "ToolExecutionError"
          /\ lastCall.code # "none"
          /\ IsNotConnected(lastCall) =>
                lastCall.errStatus = lastCall.statusAtStart
    /\ pending.outcome = "inflight" => pending.statusAtStart = "connected"

\* C6 (amended): callTool fails without a downstream call in the three
\* cases; a malformed name raises a plain untyped Error, an unknown server
\* and a server that is not connected both raise a ToolExecutionError of
\* kind MCP_UNAVAILABLE carrying the server id, in the last case with the
\* server's status.
C6_Refusals ==
    /\ (Ended(lastCall) /\ IsMalformed(lastCall)) =>
          /\ lastCall.outcome = "threw" /\ ~lastCall.proxied
          /\ lastCall.errClass = "Error" /\ lastCall.code = "none"
    /\ (Ended(lastCall) /\ IsUnknown(lastCall)) =>
          /\ lastCall.outcome = "threw" /\ ~lastCall.proxied
          /\ lastCall.errClass = "ToolExecutionError"
          /\ lastCall.code = "MCP_UNAVAILABLE"
          /\ lastCall.errServerId = NamedServer(lastCall.name)
          /\ lastCall.errStatus = "none"
    /\ (Ended(lastCall) /\ IsNotConnected(lastCall)) =>
          /\ lastCall.outcome = "threw" /\ ~lastCall.proxied
          /\ lastCall.errClass = "ToolExecutionError"
          /\ lastCall.code = "MCP_UNAVAILABLE"
          /\ lastCall.errServerId = NamedServer(lastCall.name)
          /\ lastCall.errStatus = lastCall.statusAtStart
    /\ pending.outcome = "inflight" => pending.statusAtStart = "connected"

\* C6 witness: a call naming a disconnected server was refused
C6_Witness ==
    /\ lastCall.outcome = "threw"
    /\ lastCall.statusAtStart = "disconnected"
    /\ lastCall.errStatus = "disconnected"

\* C7: a proxied call that fails at the transport raises the LLM_ERROR kind,
\* and one the downstream answers returns the downstream's content, with
\* isError set exactly when the downstream set it.
C7_ProxiedOutcome ==
    (Ended(lastCall) /\ lastCall.proxied) =>
        /\ lastCall.outcome = "threw" =>
              /\ lastCall.errClass = "ToolExecutionError"
              /\ lastCall.code = "LLM_ERROR"
        /\ lastCall.outcome = "returned" =>
              /\ lastCall.content = lastCall.ds.content
              /\ lastCall.isError = (lastCall.ds.isError = "true")

\* C7 witness: the downstream answered with its error flag set
C7_Witness ==
    /\ lastCall.outcome = "returned"
    /\ lastCall.ds.isError = "true"
    /\ lastCall.isError
    /\ lastCall.content = "c2"

\* C8: once the exit of a server's process has been observed, the server's
\* entry is in the table and its status is failed for a nonzero non-null
\* exit code and disconnected otherwise.
C8_ExitReflected ==
    \A s \in ServerIds :
        (proc[s].state = "exited" /\ mgrPc # "closed") =>
            /\ connections[s].status # "absent"
            /\ connections[s].status = ExitStatus(proc[s].code)

\* C9: a callTool naming a server whose process had exited fails as
\* MCP_UNAVAILABLE with the server id and its status, and is not proxied.
C9_DeadServerRefused ==
    /\ (Ended(lastCall) /\ lastCall.exitedAtStart) =>
          /\ lastCall.outcome = "threw"
          /\ ~lastCall.proxied
          /\ lastCall.code = "MCP_UNAVAILABLE"
          /\ lastCall.errServerId = NamedServer(lastCall.name)
          /\ lastCall.errStatus \in {"failed", "disconnected"}
    /\ pending.outcome = "inflight" => ~pending.exitedAtStart

\* the (server id, tool name) pairs of a composite tool's internal_tools
WhitelistPairs(task) ==
    LET wl == ToolConfig(task).internal_tools
    IN UNION {{<<wl[i].serverId, wl[i].toolNames[j]>> :
                  j \in 1..Len(wl[i].toolNames)} : i \in 1..Len(wl)}

\* C2: every call proxied to a downstream during a task execution targets a
\* (server id, tool name) pair of that task's internal_tools.
C2_ToolIsolation ==
    (pending.outcome = "inflight" /\ pending.via = "wrapper") =>
        <<pending.serverId, pending.toolName>> \in WhitelistPairs(run.task)

\* C10: a task execution in which the sub-agent called a tool of a server
\* that had died returns a ToolExecutionError to the orchestrator.
C10_DeadServerFailsTask ==
    (result.kind # "none" /\ result.sawDead) =>
        /\ result.isError
        /\ result.errClass = "ToolExecutionError"


\* ------------------------------------------------------------------------
\* Claims on the session manager
\* ------------------------------------------------------------------------

\* C15: the k-th createSession call, counting from 0, returns identifier
\* k mod 1000, whatever resumeSession calls came in between.
C15_SessionIdSequence ==
    lastOp.op = "create" => lastOp.sessionId = lastOp.k % SESSION_RING

\* the 1001st call has returned 0
C15_Witness ==
    /\ lastOp.op = "create"
    /\ lastOp.k = SESSION_RING
    /\ lastOp.sessionId = 0

\* C16: resumeSession on an identifier without a session returns false and
\* changes nothing: not the stored sessions, not the table size, not the
\* ring pointer, and no promise is resolved.
C16_ResumeUnknownNoOp ==
    [][\A id \in ReplyIds, p \in Payloads :
          (ApiResumeSession(id, p) /\ ~HasSession(sessions, id)) =>
              /\ lastOp'.op = "resume" /\ lastOp'.sessionId = id
              /\ lastOp'.ret = FALSE
              /\ sessions' = sessions
              /\ ActiveCount(sessions') = ActiveCount(sessions)
              /\ counter' = counter
              /\ waiting' = waiting
              /\ lastOp'.resolved = -1]_vars

\* a reply to an unknown identifier was refused while a session was stored
C16_Witness ==
    /\ lastOp.op = "resume"
    /\ lastOp.ret = FALSE
    /\ ActiveCount(sessions) > 0

\* C17: resumeSession on an existing identifier returns true, removes that
\* session and no other, and resolves with the payload the promise that
\* the createSession call creating the session returned.
C17_ResumeResolves ==
    [][\A id \in ReplyIds, p \in Payloads :
          (ApiResumeSession(id, p) /\ HasSession(sessions, id)) =>
              LET k == sessions[id].resolve
              IN /\ lastOp'.ret = TRUE
                 /\ DOMAIN sessions' = DOMAIN sessions \ {id}
                 /\ \A i \in DOMAIN sessions' : sessions'[i] = sessions[i]
                 /\ k \in DOMAIN waiting /\ waiting[k] = id
                 /\ lastOp'.resolved = k /\ lastOp'.value = p
                 /\ DOMAIN waiting' = DOMAIN waiting \ {k}]_vars

\* a reply was delivered while another session stayed stored
C17_Witness ==
    /\ lastOp.op = "resume"
    /\ lastOp.ret = TRUE
    /\ lastOp.value \in Payloads
    /\ ActiveCount(sessions) > 0

\* promises whose session was overwritten: still pending, and no stored
\* session holds their resolver
Orphans ==
    {k \in DOMAIN waiting :
        ~(HasSession(sessions, waiting[k]) /\ sessions[waiting[k]].resolve = k)}

\* C19: a createSession that allocates an identifier still holding a
\* session is not rejected, the identifier then maps to the new session,
\* the table does not grow, and the promise of the overwritten session is
\* never resolved by a later resumeSession.
C19_WraparoundOverwrite ==
    [][/\ \A n \in CallbackTools, a \in Args, q \in Questions :
            (ApiCreateSession(n, a, q) /\ HasSession(sessions, counter)) =>
                /\ lastOp'.op = "create" /\ lastOp'.ret = TRUE
                /\ lastOp'.sessionId = counter
                /\ sessions'[counter] =
                      [sessionId |-> counter, toolName |-> n,
                       originalArgs |-> a,
                       messages |-> <<PromptMessage(a)>>,
                       question |-> q, resolve |-> created]
                /\ ActiveCount(sessions') = ActiveCount(sessions)
       /\ \A k \in Orphans : k \in Orphans' /\ lastOp'.resolved # k]_vars

\* after an overwrite, a reply to the reused identifier was delivered and
\* the overwritten session's promise is still pending
C19_Witness ==
    \E k \in Orphans :
        /\ lastOp.op = "resume" /\ lastOp.ret = TRUE
        /\ lastOp.sessionId = waiting[k]

\* a stored session is gone, or another one has taken its identifier
Destroyed(id) ==
    ~HasSession(sessions', id) \/ sessions'[id] # sessions[id]

C11_CompleteOrPause ==
    [][/\ ModelAnswers =>
            /\ result'.kind = "text" /\ ~result'.isError
            /\ result'.steps = run.steps + 1
            /\ created' = created /\ sessions' = sessions
       /\ LoopStops =>
            /\ result'.kind = "text" /\ ~result'.isError
            /\ result'.steps = run.steps
            /\ created' = created /\ sessions' = sessions
       /\ \A q \in Questions :
            ModelPauses(q) =>
                /\ result'.kind = "callback" /\ ~result'.isError
                /\ result'.question = q
                /\ result'.sessionId = counter
                /\ created' = created + 1
                /\ HasSession(sessions', result'.sessionId)
                /\ LET s == sessions'[result'.sessionId]
                   IN /\ s.resolve = created
                      /\ s.toolName = run.task
                      /\ s.originalArgs = run.args
                      /\ s.messages[1].kind = "prompt"
                      /\ s.messages[1].args = s.originalArgs
                      /\ s.question = q
       /\ created' # created => \E q \in Questions : ModelPauses(q)]_vars

\* a resumed run has paused again, and its new session is stored
C11_Witness ==
    /\ result.kind = "callback"
    /\ result.origin = "resume"
    /\ result.question \in Questions
    /\ HasSession(sessions, result.sessionId)

\* C12: the history stored in the session of a pause is the history the
\* run had accumulated: the messages it started with, then every model
\* step and tool result produced before the pause, in order.
C12_PauseCapturesHistory ==
    result.kind = "callback" =>
        /\ HasSession(sessions, result.sessionId)
        /\ sessions[result.sessionId].messages = result.accumulated

\* C13: resume on an existing session runs the loop on the saved history
\* followed by exactly one message holding the session's question and the
\* reply payload, and the session is gone once the resume is accepted.
C13_ResumeHistory ==
    [][\A id \in ReplyIds, p \in Payloads :
          (ReplyInvoke(id, p) /\ HasSession(sessions, id)) =>
              LET s == sessions[id]
                  n == Len(s.messages)
              IN /\ run'.pc = "model" /\ run'.origin = "resume"
                 /\ run'.task = s.toolName
                 /\ Len(run'.start) = n + 1
                 /\ SubSeq(run'.start, 1, n) = s.messages
                 /\ run'.start[n + 1].role = "user"
                 /\ run'.start[n + 1].question = s.question
                 /\ run'.start[n + 1].payload = JsonStringify(p)
                 /\ run'.produced = << >>
                 /\ ~HasSession(sessions', id)]_vars

\* a second reply was accepted: the history holds the prompt and both replies
C13_Witness ==
    /\ run.pc = "model"
    /\ run.origin = "resume"
    /\ Len(run.start) = 3
    /\ lastOp.op = "resume" /\ lastOp.ret

\* C14: resume on an identifier without a session fails with an error
\* returned to the caller, starts no run and makes no model call, and
\* leaves the session table and the ring pointer unchanged.
C14_ResumeUnknownFails ==
    [][\A id \in ReplyIds, p \in Payloads :
          (ReplyInvoke(id, p) /\ ~HasSession(sessions, id)) =>
              /\ result'.kind = "error" /\ result'.isError
              /\ result'.sessionId = id
              /\ run' = NoRun
              /\ pending' = NoCall
              /\ sessions' = sessions
              /\ counter' = counter
              /\ waiting' = waiting]_vars

\* a reply to an unknown identifier was refused while a session was stored
C14_Witness ==
    /\ result.kind = "error"
    /\ result.origin = "resume"
    /\ ~HasSession(sessions, result.sessionId)
    /\ ActiveCount(sessions) > 0

\* C20: a run takes at most MAX_STEPS model steps; a run stopped by the
\* step bound ends complete with a step count of at most MAX_STEPS; a run
\* whose deadline has elapsed ends as a timeout failure, never complete.
C20_LoopBounds ==
    /\ run.steps <= MAX_STEPS
    /\ result.steps <= MAX_STEPS
    /\ result.stopped => (result.kind = "text" /\ ~result.isError)
    /\ result.expired =>
          /\ result.kind = "error"
          /\ result.code = "EXECUTION_TIMEOUT"

\* C21: every execute or resume that starts a loop run eventually ends
\* (completed, paused, timed out or failed), whatever the model and the
\* downstream do, a tool call that never answers included.
C21_RunEnds == (run.pc # "none") ~> (run.pc = "none")

\* the error kind a reader finds in the text of an error result
KindNamed(message) ==
    IF message = << >> THEN "none"
    ELSE IF message[1] = "Execution timed out: " THEN "EXECUTION_TIMEOUT"
    ELSE IF message[1] = "Provider error: " THEN "LLM_ERROR"
    ELSE "Error"

ThrownKind(res) ==
    IF res.errClass = "ToolExecutionError" THEN res.code ELSE res.errClass

\* the handler's return has one of the three forms
AnswerForm(res) ==
    LET ret == HandlerReturn(res)
    IN /\ res.kind \in {"text", "callback", "error"}
       /\ res.kind = "text" =>
             ret.lead = "text" /\ ret.isError = "undefined"
       /\ res.kind = "callback" =>
             /\ ret.isError = "undefined"
             /\ ret.sessionId = res.sessionId
             /\ ret.sessionId \in 0..(SESSION_RING - 1)
             /\ ret.question = res.question
             /\ ret.question \in Questions
       /\ res.kind = "error" =>
             /\ ret.isError = "true"
             /\ ret.message = ThrownMessage(res)
             /\ ret.message # << >>
             /\ KindNamed(ret.message) = ThrownKind(res)

C23_TimeoutIffDeadline ==
    (result.kind = "error" /\ result.errClass = "ToolExecutionError") =>
        /\ result.code \in {"EXECUTION_TIMEOUT", "LLM_ERROR"}
        /\ (result.code = "EXECUTION_TIMEOUT") <=> result.expired

\* the servers a composite tool's whitelist names
WhitelistServers(n) ==
    {ToolConfig(n).internal_tools[i].serverId :
        i \in 1..Len(ToolConfig(n).internal_tools)}

\* C24: a context appears only for the tool whose build init has just
\* awaited, and init starts that build only when every server of the tool's
\* whitelist is connected; a tool whose whitelist names a server that never
\* connected never has a context; a failed build leaves the cache as it was
\* and init goes on with the remaining tools; execute on a tool without a
\* context fails without starting a run or creating a session.
C24_ContextGating ==
    [][/\ \A n \in ToolNames :
             (contexts'[n].built /\ ~contexts[n].built) =>
                 /\ engPc.pc = "building"
                 /\ Tools[engPc.idx].name = n
       /\ (engPc'.pc = "building" /\ engPc' # engPc) =>
             HasRequiredServers(Tools[engPc'.idx].internal_tools, connections)
       /\ \A n \in ToolNames :
             contexts'[n].built =>
                 \A s \in WhitelistServers(n) :
                     s \in ServerIds /\ connPc'[s] = "ok"
       /\ GetModelRejected =>
             /\ contexts' = contexts
             /\ engPc' = EngineLoop(engPc.idx + 1, connections)
       /\ \A task \in ToolNames, args \in EngineArgs :
             (ApiExecute(task, args) /\ ~contexts[task].built) =>
                 /\ run' = NoRun
                 /\ result'.kind = "error"
                 /\ result'.isError
                 /\ UNCHANGED sesVars
      ]_vars

C24_Witness ==
    /\ engPc.pc = "ready"
    /\ ~contexts["t1"].built
    /\ contexts["t2"].built
    /\ connections[sAU].status = "connected"
    /\ proc[sAU].state = "running"
    /\ result.kind = "error"
    /\ result.task = "t1"
    /\ result.origin = "execute"
    /\ run.pc = "none"

\* C25: every context that exists holds a wrapper for every entry of its
\* task's whitelist; a task with an entry that is not available when the
\* context is built has no context.
C25_ContextOnlyIfWhitelistSatisfied ==
    \A n \in ToolNames :
        contexts[n].built =>
            \A p \in WhitelistPairs(n) :
                NamespacedName(p[1], p[2]) \in contexts[n].tools


\* C26: once engine.init has returned the context cache never changes:
\* execute, resume, a downstream exit, shutdown and every other step leave
\* each task's context, and so hasContext, as it was.
C26_ContextsFrozen ==
    [][engPc.pc = "ready" => (contexts' = contexts /\ engPc'.pc = "ready")]_vars

\* a task was executed, the server of its tools exited and the manager was
\* shut down, and the context built at startup is still cached
C26_Witness ==
    /\ engPc.pc = "ready"
    /\ contexts["t2"].built
    /\ result.kind # "none"
    /\ proc[sA].state = "exited"
    /\ shut.pc = "done"
    /\ connections[sA] = NoConn


\* C27: only a task whose allow_callback flag is set creates a session or
\* returns a pause marker; a task without the flag does neither, whatever
\* tool the model asks for, the reply tool included.
C27_NoPauseWithoutFlag ==
    [][/\ created' # created =>
            (run.pc = "model" /\ ToolConfig(run.task).allow_callback)
       /\ \A id \in DOMAIN sessions' :
            ToolConfig(sessions'[id].toolName).allow_callback
       /\ result'.kind = "callback" =>
            ToolConfig(result'.task).allow_callback
       /\ (run.pc = "model" /\ ~ToolConfig(run.task).allow_callback) =>
            /\ UNCHANGED sesVars
            /\ result'.kind # "callback"]_vars

\* the model of a task without the flag asked for a tool that its context
\* does not hold and the loop went on, with no session made
C27_Witness ==
    /\ run.task = "t1"
    /\ run.pc = "model"
    /\ run.steps = 1
    /\ run.produced = <<AssistantMessage(1), ToolMessage(1)>>
    /\ pending = NoCall
    /\ lastCall = NoCall
    /\ created = 0


\* C28: hasRequiredServers(whitelist) is true exactly when every server id
\* of the whitelist has an entry whose status is connected (so it is true
\* for the empty whitelist); the call changes nothing, and asked again with
\* the same whitelist it gives the same answer.
C28_HasRequiredServers ==
    [][avail'.phase = "asked" =>
        /\ avail'.has =
              (\A i \in 1..Len(avail'.internalTools) :
                  LET s == avail'.internalTools[i].serverId
                  IN /\ s \in DOMAIN avail.conns
                     /\ avail.conns[s] # NoConn
                     /\ avail.conns[s].status = "connected")
        /\ Len(avail'.internalTools) = 0 => avail'.has
        /\ avail'.conns = avail.conns
        /\ UNCHANGED <<mgrVars, callVars, engVars, nm, sesVars, shutVars,
                   extVars>>
        /\ avail'.again => avail'.has = avail.has]_vars

\* asked twice about a whitelist of two servers, one of them not connected
C28_Witness ==
    /\ avail.phase = "asked"
    /\ avail.again
    /\ Len(avail.internalTools) = 2
    /\ ~avail.has
    /\ \E i \in 1..2 :
          GetConn(avail.conns, avail.internalTools[i].serverId).status
              = "connected"
    /\ \E i \in 1..2 :
          GetConn(avail.conns, avail.internalTools[i].serverId).status
              = "disconnected"


\* C29: shutdown ends without raising once every awaited close has settled:
\* every entry still connected when the kill loop starts had its close
\* attempted, a close that failed stops neither the later closes nor the
\* kills, every spawned process (those of failed connections too) is sent
\* a kill, and both tables are empty afterwards.
C29_ShutdownCompletes ==
    /\ [](shut.pc = "done" =>
            /\ \A s \in ServerIds : connections[s] = NoConn
            /\ processes = {}
            /\ shut.procsAtKill = {s \in ServerIds : proc[s].state # "none"}
            /\ shut.killSent = shut.procsAtKill
            /\ shut.closeFailed \subseteq shut.closed)
    /\ [][(shut.pc # "done" /\ shut'.pc = "done") =>
            \A s \in ServerIds :
                connections[s].status = "connected" => s \in shut'.closed]_vars
    /\ ((shut.pc = "closing") ~> (shut.pc = "done"))

\* shutdown ended although a close had failed, and it sent a kill to the
\* process of a server whose connection was not connected
C29_Witness ==
    /\ shut.pc = "done"
    /\ shut.closeFailed # {}
    /\ shut.killSent \ shut.closed # {}
    /\ processes = {}


C31_OwnSessionPerPause ==
    /\ [](\A i, j \in Invocations :
            (/\ i # j
             /\ conc.marks[i] # NoMarker
             /\ conc.marks[j] # NoMarker
             /\ conc.marks[i].sessionId = conc.marks[j].sessionId
             /\ conc.marks[i].n < conc.marks[j].n)
                => conc.marks[j].n - conc.marks[i].n >= SESSION_RING)
    /\ [](\A id \in DOMAIN sessions :
            /\ sessions[id].messages[1] =
                  PromptMessage(sessions[id].originalArgs)
            /\ \E k \in Invocations :
                  sessions[id].originalArgs = ConcArgs[k]
            /\ \A m \in 2..Len(sessions[id].messages) :
                  \E k \in Invocations :
                      sessions[id].messages[m].question = ConcQuestions[k])
    /\ [][\A k \in Invocations :
            (/\ conc.runs[k].pc = "model"
             /\ conc'.marks[k] \notin {conc.marks[k], NoMarker}) =>
                /\ conc'.marks[k].sessionId = counter
                /\ conc'.marks[k].n = created
                /\ sessions'[counter] =
                      [sessionId |-> counter,
                       toolName |-> conc.runs[k].task,
                       originalArgs |-> conc.runs[k].args,
                       messages |-> conc.runs[k].start,
                       question |-> conc'.marks[k].question,
                       resolve |-> created]]_vars

\* two invocations ran at the same time and both paused: their sessions
\* are stored under different identifiers, each with its own arguments
C31_Witness ==
    /\ conc.marks[1] # NoMarker
    /\ conc.marks[2] # NoMarker
    /\ conc.marks[1].sessionId # conc.marks[2].sessionId
    /\ HasSession(sessions, conc.marks[1].sessionId)
    /\ HasSession(sessions, conc.marks[2].sessionId)
    /\ sessions[conc.marks[1].sessionId].originalArgs = ConcArgs[1]
    /\ sessions[conc.marks[2].sessionId].originalArgs = ConcArgs[2]
    /\ sessions[conc.marks[1].sessionId].question = ConcQuestions[1]
    /\ sessions[conc.marks[2].sessionId].question = ConcQuestions[2]

\* C35: a run started by a reply continues the execution whose pause
\* marker the orchestrator was answering.
C35_ReplyContinuesAnswered ==
    \A j \in Invocations :
        conc.runs[j].origin = "resume" =>
            conc.runs[j].from = conc.runs[j].answered

\* C36: of the resume calls naming one session identifier at most one is
\* accepted: the accepted call removes the session before anything else
\* can run, every other call is refused and changes nothing, and a pause
\* that has been continued is never continued again.
C36_OneResumePerPause ==
    /\ [](\A i, j \in Invocations :
            (/\ i # j
             /\ conc.runs[i].origin = "resume"
             /\ conc.runs[j].origin = "resume")
                => conc.runs[i].from # conc.runs[j].from)
    /\ [][/\ \A j, k \in Invocations, p \in ConcPayloads :
              ConcResume(j, k, p) =>
                LET id == conc.marks[k].sessionId
                IN /\ conc'.last.accepted = HasSession(sessions, id)
                   /\ conc'.last.accepted =>
                         /\ ~HasSession(sessions', id)
                         /\ sessions[id].resolve \in DOMAIN waiting
                         /\ sessions[id].resolve \notin DOMAIN waiting'
                         /\ conc'.runs[j].from = sessions[id].resolve
                   /\ ~conc'.last.accepted =>
                         /\ UNCHANGED sesVars
                         /\ conc'.runs = conc.runs
          /\ DOMAIN waiting' \subseteq DOMAIN waiting \cup {created}]_vars

\* a second resume named the session that a run in flight was resumed
\* from, and was refused
C36_Witness ==
    \E j, k \in Invocations :
        /\ conc.runs[j].origin = "resume"
        /\ conc.runs[j].pc = "model"
        /\ conc.runs[j].from = conc.marks[k].n
        /\ conc.last.op = "resume"
        /\ ~conc.last.accepted
        /\ conc.last.sessionId = conc.marks[k].sessionId


\* C32: a run started by resume begins with no step taken and its deadline
\* not elapsed, whatever the paused run had used; it is stopped by the step
\* bound only after MAX_STEPS steps of its own; and a deadline elapses only
\* for a run in flight, never for a session waiting for its reply.
C32_ResumeFreshBudget ==
    [][/\ (run.pc = "none" /\ run'.origin = "resume") =>
            /\ run'.pc = "model"
            /\ run'.steps = 0
            /\ ~run'.expired
       /\ (run.pc # "stop" /\ run'.pc = "stop") => run'.steps = MAX_STEPS
       /\ (run'.pc # "none" /\ run.pc # "none") => run'.steps >= run.steps
       /\ (run'.expired /\ ~run.expired) =>
            /\ run.pc \in {"model", "tool"}
            /\ run'.pc = run.pc
            /\ UNCHANGED sesVars]_vars

\* a run started by resume used its whole step budget
C32_Witness ==
    /\ run.origin = "resume"
    /\ run.pc = "stop"
    /\ run.steps = MAX_STEPS
    /\ ~run.expired


\* C33: while a callTool is waiting for the downstream's answer, a change of
\* the connection's status by the exit observer leaves the call waiting; the
\* call ends only as the downstream's result or as the transport failure
\* LLM_ERROR, never as MCP_UNAVAILABLE; and a call begun while the status is
\* not connected is refused as MCP_UNAVAILABLE without being proxied.
C33_InflightNotInterrupted ==
    [][/\ (pending.outcome = "inflight" /\ connections' # connections) =>
            /\ pending' = pending
            /\ lastCall' = lastCall
       /\ (pending.outcome = "inflight" /\ pending' # pending) =>
            /\ pending' = NoCall
            /\ connections' = connections
            /\ lastCall'.proxied
            /\ \/ /\ lastCall'.outcome = "returned"
                  /\ lastCall'.content = lastCall'.ds.content
               \/ /\ lastCall'.outcome = "threw"
                  /\ lastCall'.code = "LLM_ERROR"
       /\ (pending = NoCall /\ lastCall' # lastCall
              /\ lastCall'.statusAtStart \in {"failed", "disconnected"}) =>
            /\ pending' = NoCall
            /\ lastCall'.outcome = "threw"
            /\ ~lastCall'.proxied
            /\ lastCall'.code = "MCP_UNAVAILABLE"]_vars

\* a call is still waiting for the downstream although the exit observer
\* has marked its server failed
C33_Witness ==
    /\ pending.outcome = "inflight"
    /\ pending.via = "api"
    /\ pending.statusAtStart = "connected"
    /\ connections[pending.serverId].status = "failed"

\* C34: a connection whose status is failed or disconnected is never
\* connected again, and once init has returned no step launches a process,
\* registers one, or takes a server back into connecting.
C34_NoRestart ==
    [][/\ \A s \in ServerIds :
            connections[s].status \in {"failed", "disconnected"} =>
                connections'[s].status # "connected"
       /\ mgrPc = "ready" =>
            /\ mgrPc' = "ready"
            /\ connPc' = connPc
            /\ processes' \subseteq processes
            /\ \A s \in ServerIds :
                  /\ proc'[s].state = "running" => proc[s].state = "running"
                  /\ connections'[s].status = "connected" =>
                        connections[s].status = "connected"]_vars

\* after init has returned a server's process has exited, the server is
\* marked failed, and a call to it has been refused: nothing restarted it
C34_Witness ==
    /\ mgrPc = "ready"
    /\ lastCall.outcome = "threw"
    /\ lastCall.code = "MCP_UNAVAILABLE"
    /\ lastCall.errStatus = "failed"
    /\ lastCall.serverId \in ServerIds
    /\ proc[lastCall.serverId].state = "exited"
    /\ connections[lastCall.serverId].status = "failed"

\* a run started by resume has ended as EXECUTION_TIMEOUT or LLM_ERROR and
\* nothing has touched the session table since the resume
ResumedRunFailed ==
    /\ run.pc = "none"
    /\ result.kind = "error"
    /\ result.origin = "resume"
    /\ result.code \in {"EXECUTION_TIMEOUT", "LLM_ERROR"}
    /\ lastOp.op = "resume"
    /\ lastOp.ret

\* C37: the session is out of the table from the step that starts the
\* resumed run; the run's end as EXECUTION_TIMEOUT or LLM_ERROR leaves the
\* table as it is, so the session is not put back; and a reply with the same
\* identifier after that end is answered "No session found" and starts no
\* run.
C37_ResumeConsumesSession ==
    /\ [](((run.origin = "resume" /\ run.pc # "none") \/ ResumedRunFailed) =>
            /\ lastOp.op = "resume"
            /\ lastOp.ret
            /\ ~HasSession(sessions, lastOp.sessionId)
            /\ lastOp.resolved \notin DOMAIN waiting)
    /\ [][/\ (run.pc = "none" /\ run'.origin = "resume") =>
               /\ HasSession(sessions, lastOp'.sessionId)
               /\ ~HasSession(sessions', lastOp'.sessionId)
               /\ run'.start = ResumeMessages(sessions[lastOp'.sessionId],
                                              lastOp'.payload)
          /\ (run.origin = "resume" /\ run.pc # "none" /\ run'.pc = "none"
                 /\ result'.kind = "error") =>
               /\ UNCHANGED sesVars
               /\ result'.origin = "resume"
          /\ (ResumedRunFailed /\ result' # result
                 /\ result'.origin = "resume"
                 /\ result'.sessionId = lastOp.sessionId) =>
               /\ result' = NoSessionResult(lastOp.sessionId)
               /\ run' = NoRun
               /\ UNCHANGED sesVars
          /\ (ResumedRunFailed /\ run'.origin = "resume") =>
               lastOp'.sessionId # lastOp.sessionId]_vars

\* a run started by resume ran into its deadline and ended as
\* EXECUTION_TIMEOUT; its session is not in the table
C37_Witness ==
    /\ ResumedRunFailed
    /\ result.code = "EXECUTION_TIMEOUT"
    /\ result.expired
    /\ ~HasSession(sessions, lastOp.sessionId)

\* C39: every key of the session table is an integer in 0..999 and the
\* session stored under it carries that key as its sessionId; the table
\* holds at most 1000 sessions; the counter, from which the next identifier
\* is taken, is in 0..999; and every identifier in a pause marker not yet
\* answered passes the validation of slipsnisse_reply.
C39_IdsInRange ==
    /\ counter \in 0..(SESSION_RING - 1)
    /\ ReplyIdAccepted(counter)
    /\ \A id \in DOMAIN sessions :
          /\ id \in 0..(SESSION_RING - 1)
          /\ sessions[id].sessionId = id
          /\ ReplyIdAccepted(id)
    /\ ActiveCount(sessions) <= SESSION_RING
    /\ \A n \in DOMAIN waiting : ReplyIdAccepted(waiting[n])
    /\ lastOp.op = "create" => ReplyIdAccepted(lastOp.sessionId)
    /\ \A k \in Invocations :
          conc.marks[k] # NoMarker =>
              /\ conc.marks[k].sessionId \in 0..(SESSION_RING - 1)
              /\ ReplyIdAccepted(conc.marks[k].sessionId)

\* the ring has wrapped: the marker of the pause after the one handed 999
\* names identifier 0, and both sessions are stored under their identifiers
C39_Witness ==
    /\ created = SESSION_RING + 1
    /\ \E k \in Invocations :
          /\ conc.marks[k].sessionId = 0
          /\ conc.marks[k].n = SESSION_RING
    /\ DOMAIN sessions = {0, SESSION_RING - 1}
    /\ sessions[SESSION_RING - 1].sessionId = SESSION_RING - 1

\* C38: a stdio server has one child process, the one the manager observes
\* and kills; the transport is carried by no other process, and the
\* connection is connected exactly while the process that serves its calls
\* is running.
C38_OneObservedServingProcess ==
    \A s \in ServerIds :
        cfg[s] = "stdio" =>
            /\ ~(proc[s].state # "none" /\ tproc[s] # "none")
            /\ connections[s].status = "connected" => tproc[s] = "running"
            /\ (connPc[s] = "ok" /\ tproc[s] = "running") =>
                  connections[s].status = "connected"

\* C40: the handle getModel returns is made by a provider configured with
\* the endpoint and the credential of that call, and by the default provider
\* when the call gave no options.
C40_HandleFromOwnOptions ==
    registry.last.kind = "handle" =>
        /\ registry.last.handle.modelId = registry.last.modelId
        /\ registry.last.handle.providerName = registry.last.providerName
        /\ IF registry.last.options.given
           THEN /\ registry.last.handle.baseURL =
                      ConfiguredProvider(registry.last.options).baseURL
                /\ registry.last.handle.apiKey =
                      ConfiguredProvider(registry.last.options).apiKey
           ELSE registry.last.handle.made = "default"


====
